---- MODULE Spec2Model ----
(***************************************************************************)
(* A model of the sppd procurement pipeline: the deduplicator              *)
(* (remove_duplicates), the code mapper (map_codes), the tree flattener    *)
(* (flatten_dict) and the batched extraction pipeline (get_concat_df,      *)
(* get_full_parquet).  Every component has its own specification over the  *)
(* shared variables; the variables of the other components stay idle.      *)
(***************************************************************************)
EXTENDS Integers, Sequences, FiniteSets, TLC

VARIABLES
    \* ---- deduplicator (src/src/dl_parser/utils.py, remove_duplicates)
    df,          \* the table handed to remove_duplicates
    strategy,    \* the strategy argument of the last call
    ret,         \* what the last call did: [status, df]
    calls,       \* number of calls made so far on this table lineage
    dpc,         \* "ready" (before a call) or "done" (after it)
    \* ---- code mapper (src/src/open_tenders/utils.py, map_codes)
    ref_tables,  \* the reference parquet files of data_path, by file name
    raw,         \* the rows of {raw_name}.parquet
    mapped,      \* the rows map_codes returns and writes
    mpc,         \* "ready" or "done"
    \* ---- tree flattener (src/src/dl_parser/utils.py, flatten_dict)
    d,           \* the nested dict handed to flatten_dict
    flat,        \* the dict flatten_dict returns: flattened key -> value
    fpc,         \* "ready" or "done"
    \* ---- batched extraction (get_concat_df, get_full_parquet,
    \*      get_parquet_open_tenders)
    variant,       \* "dl_parser" (get_full_parquet) or "open_tenders"
    paths,         \* the documents of the path list, by what parsing them gives
    dup_strategy,  \* the strategy handed to remove_duplicates
    tmp_dir,       \* the spill directory: whether it exists, its parquet files
    loop_i,        \* the batch loop's offset i into paths
    batch_paths,   \* the slice of paths of the batch under way or just done
    workers,       \* per document of the batch: running, or what it returned
    results,       \* the rows _process_batch collected for that batch
    total_records, \* the cumulative row count of the batches
    final_df,      \* the combined table
    parquet_file,  \* the output table file: whether written, its table
    pstatus,       \* "running", "ok" or the exception that ended the run
    ppc,           \* the position of the run
    \* ---- element tree conversion (recursive_field_dict)
    field,         \* the element handed to recursive_field_dict
    field_dict,    \* the dict it has filled
    xpc,           \* "ready" or "done"
    \* ---- extractors (get_data_list, get_data_list_open_tenders)
    atom_entries,  \* the entry elements of the document (entries)
    loop_entry,    \* the position of the open-tenders loop in entries
    flat_details,  \* the loop's flat_details: unbound, or the last dict bound
    ot_data,       \* the rows the open-tenders extractor has appended (data)
    ostatus,       \* "running", "returned" or the exception raised
    gdata,         \* the rows get_data_list returned for the same entries
    gpc,           \* get_data_list: "ready" or "done"
    \* ---- raw-document folders (download_and_extract_zip, delete_files)
    source_data,   \* the source catalog: period -> URL of its archive
    fs,            \* the data folder: whether it exists, the period folders
    http_log,      \* the URLs requested so far
    last_call,     \* the last call made: function, period, outcome
    ops,           \* the number of calls made
    \* ---- command line (src/src/dl_parser/main.py, main)
    periods,           \* the periods of the catalog fetched for this round
    selected_periods,  \* the answer to the periods prompt, split
    main_dup_strategy, \* the answer to the duplicate strategy prompt
    apply_mapping,     \* the answer to the mapping prompt
    del_files,         \* the answer to the file deletion prompt
    confirmation,      \* the answer to the confirmation prompt
    dl_parser_calls,   \* the calls of dl_parser made so far, with their arguments
    restarts,          \* the number of nested calls of main
    cpc,               \* the prompt main is waiting at
    \* ---- driver (src/src/dl_parser/utils.py, dl_parser)
    dp_selected,       \* the selected_periods argument
    dp_del_files,      \* the del_files argument
    dp_k,              \* the position of the running loop in selected_periods
    dp_log,            \* the calls made so far: function, period, outcome
    dp_parquet_files,  \* the list parquet_files
    dp_pc,             \* the loop dl_parser is in
    \* ---- recent months (src/src/open_tenders/utils.py, download_recent_data)
    rc_source,         \* the keys of source_dict, in the catalog's order
    rc_months,         \* last_months, in the order of the dict
    rc_downloads,      \* the periods downloaded, in the order of the calls
    rc_pc              \* whether download_recent_data has run

dedupVars == <<df, strategy, ret, calls, dpc>>
mapVars == <<ref_tables, raw, mapped, mpc>>
flatVars == <<d, flat, fpc>>
pipeVars ==
    <<variant, paths, dup_strategy, tmp_dir, loop_i, batch_paths, workers, results,
      total_records, final_df, parquet_file, pstatus, ppc>>

xmlVars == <<field, field_dict, xpc>>

extractVars == <<atom_entries, loop_entry, flat_details, ot_data, ostatus, gdata, gpc>>

filesVars == <<source_data, fs, http_log, last_call, ops>>

cliVars ==
    <<periods, selected_periods, main_dup_strategy, apply_mapping, del_files,
      confirmation, dl_parser_calls, restarts, cpc>>

driverVars == <<dp_selected, dp_del_files, dp_k, dp_log, dp_parquet_files, dp_pc>>

recentVars == <<rc_source, rc_months, rc_downloads, rc_pc>>

vars ==
    <<dedupVars, mapVars, flatVars, pipeVars, xmlVars, extractVars, filesVars, cliVars,
      driverVars, recentVars>>

\* The variables of the components a specification leaves idle.
exceptDedup == <<mapVars, flatVars, pipeVars, xmlVars, extractVars, filesVars, cliVars, driverVars, recentVars>>
exceptMap == <<dedupVars, flatVars, pipeVars, xmlVars, extractVars, filesVars, cliVars, driverVars, recentVars>>
exceptFlatten == <<dedupVars, mapVars, pipeVars, xmlVars, extractVars, filesVars, cliVars, driverVars, recentVars>>
exceptPipeline == <<dedupVars, mapVars, flatVars, xmlVars, extractVars, filesVars, cliVars, driverVars, recentVars>>
exceptExtract == <<dedupVars, mapVars, flatVars, pipeVars, xmlVars, filesVars, cliVars, driverVars, recentVars>>
exceptFiles == <<dedupVars, mapVars, flatVars, pipeVars, xmlVars, extractVars, cliVars, driverVars, recentVars>>
exceptCli == <<dedupVars, mapVars, flatVars, pipeVars, xmlVars, extractVars, filesVars, driverVars, recentVars>>
exceptDriver ==
    <<dedupVars, mapVars, flatVars, pipeVars, xmlVars, extractVars, cliVars, recentVars,
      last_call, ops>>
exceptRecent ==
    <<dedupVars, mapVars, flatVars, pipeVars, xmlVars, extractVars, filesVars, cliVars,
      driverVars>>
exceptXml == <<dedupVars, mapVars, flatVars, pipeVars, extractVars, filesVars, cliVars, driverVars, recentVars>>

\* polars' null, in a string-typed or datetime-typed cell.
NULL == "<null>"

\* SeqSum-free helpers over sequences -------------------------------------
Range(s) == {s[i] : i \in DOMAIN s}

\* All the orderings of the sequence s.
Perms(s) ==
    LET n == Len(s)
        Bij == {f \in [1..n -> 1..n] : \A i, j \in 1..n : i # j => f[i] # f[j]}
    IN  {[i \in 1..n |-> s[f[i]]] : f \in Bij}

(***************************************************************************)
(* Deduplicator                                                            *)
(***************************************************************************)

\* ---- bounds of the deduplicator's inputs
MaxRows == 3
MaxCalls == 2

Links == {"L1", "L2"}
Titles == {"T1", "T2"}
\* The text of an entry's <updated> element: two ISO-8601 instants and a text
\* that is no timestamp.
RawUpdated == {"2023-01-01T00:00:00Z", "2023-01-02T00:00:00Z", "not-a-date"}

\* pl.col("updated").str.strptime(pl.Datetime, strict=False): the parsed
\* instant, or null for a text that does not parse (strict=False).
strptime(s) ==
    CASE s = "2023-01-01T00:00:00Z" -> "2023-01-01 00:00:00"
      [] s = "2023-01-02T00:00:00Z" -> "2023-01-02 00:00:00"
      [] OTHER -> NULL

\* The order of the parsed instants (a Datetime column compares by instant).
Instant(ts) ==
    CASE ts = "2023-01-01 00:00:00" -> 1
      [] ts = "2023-01-02 00:00:00" -> 2
      [] OTHER -> 0

\* An entry's id is the URL of the entry, as its link is: the model ties one
\* to the other.
IdOf(link) == IF link = "L1" THEN "I1" ELSE "I2"

AllCols == {"id", "link", "title", "updated"}

FullRows ==
    {[id |-> IdOf(l), link |-> l, title |-> t, updated |-> u] :
        l \in Links, t \in Titles, u \in RawUpdated}
NoUpdatedRows == {[id |-> IdOf(l), link |-> l, title |-> t] : l \in Links, t \in Titles}
NoTitleRows == {[id |-> IdOf(l), link |-> l, updated |-> u] : l \in Links, u \in RawUpdated}

SeqsUpTo(S, n) == UNION {[1..k -> S] : k \in 0..n}

\* A table: its columns, the dtype of `updated` and its rows in order.
Table(cols, dtype, rows) == [cols |-> cols, dtype |-> dtype, rows |-> rows]

\* The tables of up to n rows: with every column, without `updated`, without
\* `title`.
InputTables(n) ==
    {Table(AllCols, "Utf8", r) : r \in SeqsUpTo(FullRows, n)}
    \cup {Table(AllCols \ {"updated"}, "none", r) : r \in SeqsUpTo(NoUpdatedRows, n)}
    \cup {Table(AllCols \ {"title"}, "Utf8", r) : r \in SeqsUpTo(NoTitleRows, n)}

\* The strategy arguments a caller may pass: the CLI's four choices and one
\* string outside them.
Strategies == {"id", "link", "title", "None", "foo"}

\* strategies = ["link", "title"]
strategies == {"link", "title"}

NoTable == Table({}, "none", <<>>)
Raised(e) == [status |-> e, df |-> NoTable]
Returned(t) == [status |-> "ok", df |-> t]

\* df.with_columns(pl.col("updated").str.strptime(pl.Datetime, strict=False)):
\* every text of the column parsed, the column's dtype now Datetime.
ParseUpdated(t) ==
    Table(t.cols, "Datetime",
          [i \in DOMAIN t.rows |->
              [t.rows[i] EXCEPT !.updated = strptime(t.rows[i].updated)]])

\* A parse without the dtype error: a Datetime column is put through the text
\* parser like a string column.
TryParse_reparse(t) == ParseUpdated(t)

\* The try/except around the parse: a string column is parsed, a column that
\* is already Datetime raises SchemaError in .str and is left as it is.
TryParse(t) == IF t.dtype = "Utf8" THEN ParseUpdated(t) ELSE t

\* a sorts strictly before b under df.sort("updated", descending=True):
\* nulls_last defaults to False, so a null sorts before every instant, and
\* instants sort from the latest to the earliest.
SortsBefore(a, b) ==
    \/ a.updated = NULL /\ b.updated # NULL
    \/ a.updated # NULL /\ b.updated # NULL /\ Instant(a.updated) > Instant(b.updated)

\* The orders df.sort may return: the sort is not asked to maintain the order
\* of equal elements (maintain_order defaults to False).
SortDescending(rows) ==
    {s \in Perms(rows) : \A i, j \in DOMAIN s : i < j => ~SortsBefore(s[j], s[i])}

\* .unique(subset=[key], keep="first"): the first row of every key value.
RECURSIVE UniqueFrom(_, _, _)
UniqueFrom(rows, key, i) ==
    IF i > Len(rows) THEN <<>>
    ELSE (IF \A j \in 1..(i - 1) : rows[j][key] # rows[i][key]
          THEN <<rows[i]>> ELSE <<>>) \o UniqueFrom(rows, key, i + 1)

UniqueFirst(rows, key) == UniqueFrom(rows, key, 1)

\* remove_duplicates past its "None" sentinel: the strategy check, the parse,
\* the sort and the unique.  The set holds every outcome: the exception raised
\* or the table returned (unique() does not maintain the row order either).
Deduplicate(t, s) ==
    IF s \notin strategies THEN {Raised("ValueError")}
    ELSE IF "updated" \notin t.cols \/ s \notin t.cols
         THEN {Raised("ColumnNotFoundError")}
    ELSE LET p == TryParse(t)
         IN  {Returned(Table(p.cols, p.dtype, u)) :
                 u \in UNION {Perms(UniqueFirst(sorted, s)) : sorted \in SortDescending(p.rows)}}

\* A remove_duplicates that tests `strategy is None`: the string "None" is
\* not the sentinel any more and goes on to the strategy check.
remove_duplicates_is_none(t, s) == Deduplicate(t, s)

\* The outcomes of remove_duplicates(t, s).
remove_duplicates(t, s) ==
    IF s = "None" THEN {Returned(t)} ELSE Deduplicate(t, s)

NoRet == Raised("none")

DedupIdle ==
    /\ df = NoTable
    /\ strategy = "None"
    /\ ret = NoRet
    /\ calls = 0
    /\ dpc = "idle"

MapIdle ==
    /\ ref_tables = <<>>
    /\ raw = <<>>
    /\ mapped = <<>>
    /\ mpc = "idle"

FlatIdle ==
    /\ d = <<>>
    /\ flat = <<>>
    /\ fpc = "idle"

\* No frame: the value of a table variable that holds no table.
NoFrame == [cols |-> {}, dtypes |-> <<>>, rows |-> <<>>]

PipeIdle ==
    /\ variant = "none"
    /\ paths = <<>>
    /\ dup_strategy = "None"
    /\ tmp_dir = [exists |-> FALSE, files |-> <<>>]
    /\ loop_i = 0
    /\ batch_paths = <<>>
    /\ workers = <<>>
    /\ results = <<>>
    /\ total_records = 0
    /\ final_df = NoFrame
    /\ parquet_file = [written |-> FALSE, df |-> NoTable]
    /\ pstatus = "idle"
    /\ ppc = "idle"

XmlIdle ==
    /\ field = <<>>
    /\ field_dict = <<>>
    /\ xpc = "idle"

ExtractIdle ==
    /\ atom_entries = <<>>
    /\ loop_entry = 0
    /\ flat_details = [bound |-> FALSE, d |-> <<>>]
    /\ ot_data = <<>>
    /\ ostatus = "idle"
    /\ gdata = <<>>
    /\ gpc = "idle"

FilesIdle ==
    /\ source_data = <<>>
    /\ fs = [base |-> FALSE, folders |-> <<>>]
    /\ http_log = <<>>
    /\ last_call = [op |-> "none", period |-> "none", status |-> "none", names |-> "none"]
    /\ ops = 0

\* An answer not given yet: the local variable is not bound. (The list of
\* selected periods is <<>> until it is bound: split never returns it.)
NotAsked == "<not asked>"

CliIdle ==
    /\ periods = {}
    /\ selected_periods = <<>>
    /\ main_dup_strategy = NotAsked
    /\ apply_mapping = NotAsked
    /\ del_files = NotAsked
    /\ confirmation = NotAsked
    /\ dl_parser_calls = <<>>
    /\ restarts = 0
    /\ cpc = "idle"

DriverIdle ==
    /\ dp_selected = <<>>
    /\ dp_del_files = NotAsked
    /\ dp_k = 0
    /\ dp_log = <<>>
    /\ dp_parquet_files = <<>>
    /\ dp_pc = "idle"

RecentIdle ==
    /\ rc_source = <<>>
    /\ rc_months = <<>>
    /\ rc_downloads = <<>>
    /\ rc_pc = "idle"

InitDedup ==
    /\ MapIdle
    /\ FlatIdle
    /\ PipeIdle
    /\ XmlIdle
    /\ ExtractIdle
    /\ FilesIdle
    /\ CliIdle
    /\ DriverIdle
    /\ RecentIdle
    /\ df \in InputTables(MaxRows)
    /\ strategy = "None"
    /\ ret = NoRet
    /\ calls = 0
    /\ dpc = "ready"

\* One call remove_duplicates(df, s).
RemoveDuplicates ==
    /\ dpc = "ready"
    /\ \E s \in Strategies :
         /\ strategy' = s
         /\ ret' \in remove_duplicates(df, s)
    /\ calls' = calls + 1
    /\ dpc' = "done"
    /\ UNCHANGED <<df, exceptDedup>>

\* The returned table is handed to remove_duplicates again (get_db_base_table
\* deduplicates the tables get_full_parquet wrote).
CallAgain ==
    /\ dpc = "done"
    /\ ret.status = "ok"
    /\ calls < MaxCalls
    /\ df' = ret.df
    /\ ret' = NoRet
    /\ dpc' = "ready"
    /\ UNCHANGED <<strategy, calls, exceptDedup>>

NextDedup == RemoveDuplicates \/ CallAgain

SpecDedup == InitDedup /\ [][NextDedup]_vars

\* The instant of an input row's `updated`, whether the column holds text or
\* instants; NULL when it holds none.
ParsedOf(t, r) == IF t.dtype = "Utf8" THEN strptime(r.updated) ELSE r.updated

\* The rows of table t whose column k holds v.
RowsWith(t, k, v) == {i \in DOMAIN t.rows : t.rows[i][k] = v}

\* One row per value of k, and that row at least as recent as every input row
\* of its key that has an instant.
OneMostRecentRowPerKey(in, res, k) ==
    /\ \A r \in Range(in.rows) : Cardinality(RowsWith(res, k, r[k])) = 1
    /\ \A i \in DOMAIN res.rows : \A r \in Range(in.rows) :
          (r[k] = res.rows[i][k] /\ ParsedOf(in, r) # NULL) =>
              /\ res.rows[i].updated # NULL
              /\ Instant(res.rows[i].updated) >= Instant(ParsedOf(in, r))

\* C1: for every table that has the key column k (link or title) and the
\* `updated` column, remove_duplicates returns a table with exactly one row
\* per value of k, and that row's `updated` is greater than or equal to the
\* `updated` of every input row with the same value of k.
C1_MostRecentRowKept ==
    (dpc = "done" /\ strategy \in {"link", "title"}
        /\ {strategy, "updated"} \subseteq df.cols) =>
        /\ ret.status = "ok"
        /\ OneMostRecentRowPerKey(df, ret.df, strategy)

\* C2: remove_duplicates called with the key `id` on a table that has an `id`
\* column (and `updated`) does not raise and keeps one row per id, the most
\* recently updated.
C2_IdStrategyAccepted ==
    (dpc = "done" /\ strategy = "id" /\ {"id", "updated"} \subseteq df.cols) =>
        /\ ret.status = "ok"
        /\ OneMostRecentRowPerKey(df, ret.df, "id")

\* C3: remove_duplicates(T, "None") returns T itself: the same rows in the same
\* order, the same columns, the `updated` column neither parsed nor retyped,
\* also for a table that lacks the `updated` or the key columns.
C3_NoneIsIdentity ==
    (dpc = "done" /\ strategy = "None") => ret = Returned(df)

\* C3's case: a "None" call on a table of text timestamps that holds a
\* duplicated link and a text that is no timestamp, returned as it was.
C3_Witness ==
    /\ dpc = "done" /\ strategy = "None" /\ ret.status = "ok"
    /\ df.dtype = "Utf8" /\ Len(df.rows) >= 2
    /\ df.rows[1].link = df.rows[2].link
    /\ df.rows[1].updated = "not-a-date"
    /\ ret.df.rows[1].updated = "not-a-date"

C25_IdempotentOnParsedTable ==
    [][(dpc = "ready" /\ dpc' = "done" /\ calls >= 1 /\ strategy' = strategy) =>
          /\ ret'.status = "ok"
          /\ Range(ret'.df.rows) = Range(df.rows)
          /\ Len(ret'.df.rows) = Len(df.rows)
          /\ ret'.df.cols = df.cols]_vars

\* C25's case: the table returned by a call that deduplicated by link, its
\* `updated` column parsed, two links in it, was deduplicated by link again
\* and came back with the same two rows.
C25_Witness ==
    /\ dpc = "done" /\ calls = 2 /\ strategy = "link" /\ ret.status = "ok"
    /\ df.dtype = "Datetime" /\ Len(df.rows) = 2
    /\ df.rows[1].link # df.rows[2].link
    /\ \E i \in 1..2 : df.rows[i].updated # NULL
    /\ Range(ret.df.rows) = Range(df.rows)

\* C30: no row returned by remove_duplicates has a null `updated` while an
\* input row with the same key value has a timestamp.
C30_NullNeverPreferred ==
    (dpc = "done" /\ strategy \in {"link", "title"} /\ ret.status = "ok") =>
        \A i \in DOMAIN ret.df.rows :
            ret.df.rows[i].updated = NULL =>
                \A r \in Range(df.rows) :
                    r[strategy] = ret.df.rows[i][strategy] => ParsedOf(df, r) = NULL

(***************************************************************************)
(* Code mapper                                                             *)
(***************************************************************************)

\* ---- bound of the code mapper's input
MaxMapRows == 2

\* A string is the sequence of its tokens, the underscore a token of its own:
\* "30000000_99999999" is <<"30000000", "_", "99999999">> and the empty string
\* is <<>>.  S(x) is the one-token string x.
S(x) == <<x>>

\* A cell of a Utf8 column: a string or null.
StrCell(x) == [t |-> "str", v |-> x]
NullCell == [t |-> "null", v |-> <<>>]

RefRow(c, n) == [code |-> S(c), nombre |-> S(n)]

\* The subtype reference tables, as the tests' sample_mapping_tables has them.
SubtypeTables ==
    [GoodsContractCode |-> <<RefRow("001", "Goods Type 1"), RefRow("002", "Goods Type 2")>>,
     ServiceContractCode |-> <<RefRow("001", "Service Type 1")>>,
     WorksContractCode |-> <<RefRow("001", "Works Type 1")>>,
     PatrimonialContractCode |-> <<RefRow("001", "Patrimonial Type 1")>>]

CPV2008 ==
    <<RefRow("30000000", "Office and computing machinery"),
      RefRow("72000000", "IT services")>>

\* The reference files of a data_path: the tests' tables (ContractCode keyed by
\* the Spanish names), or the published code lists (ContractCode keyed by
\* numbers, the names Spanish; one code listed twice in TenderingProcessCode).
RefTableSets ==
    { [f \in {"TenderingProcessCode", "ContractCode", "CPV2008"} |->
          CASE f = "TenderingProcessCode" -> tp
            [] f = "ContractCode" -> cc
            [] OTHER -> CPV2008] :
        tp \in { <<RefRow("OBJ", "Automatically evaluated"),
                   RefRow("SUBJ", "Not automatically evaluated")>>,
                 <<RefRow("OBJ", "Evaluated"),
                   RefRow("OBJ", "Automatically evaluated")>> },
        cc \in { <<RefRow("Suministros", "Goods"), RefRow("Servicios", "Services")>>,
                 <<RefRow("1", "Suministros"), RefRow("2", "Servicios")>> } }

RawRows ==
    {[ProcessCode |-> p, ProjectTypeCode |-> StrCell(S(t)), CPVCode |-> StrCell(c),
      CPVLotCode |-> StrCell(S("72000000")),
      ProjectSubTypeCode |-> StrCell(S(u))] :
        p \in {StrCell(S("OBJ")), StrCell(S("UNKNOWN")), NullCell},
        t \in {"Suministros", "1", "UnknownType"},
        c \in {<<>>, <<"30000000", "_", "99999999">>,
               <<"30000000", "_", "_", "72000000">>},
        u \in {"001", "999"}}

\* make_map: dict(zip(d["code"], d["nombre"])), a later row of a code
\* replacing an earlier one.
make_map(tbl) ==
    [c \in {tbl[i].code : i \in DOMAIN tbl} |->
        LET last == CHOOSE i \in DOMAIN tbl :
                        /\ tbl[i].code = c
                        /\ \A j \in DOMAIN tbl : tbl[j].code = c => j <= i
        IN  tbl[last].nombre]

\* m.get(x) with no default: None for a code that is no key.
DictGetOrNone(m, x) == IF x \in DOMAIN m THEN StrCell(m[x]) ELSE NullCell

\* m.get(x, x)
DictGet(m, x) == IF x \in DOMAIN m THEN StrCell(m[x]) ELSE StrCell(x)

\* pl.col(col).map_elements(lambda x, m=maps[col]: m.get(x, x),
\* return_dtype=pl.Utf8): the lambda applied to every cell that is not null.
MapElements(cell, m) == IF cell.t = "null" THEN cell ELSE DictGet(m, cell.v)

\* subtype_maps, keyed by the name of the project type.
subtype_maps ==
    [k \in {S("Suministros"), S("Servicios"), S("Obras"), S("Patrimonial")} |->
        make_map(CASE k = S("Suministros") -> SubtypeTables.GoodsContractCode
                   [] k = S("Servicios") -> SubtypeTables.ServiceContractCode
                   [] k = S("Obras") -> SubtypeTables.WorksContractCode
                   [] OTHER -> SubtypeTables.PatrimonialContractCode)]

\* A map_project_subtype whose lookup has no default: m.get(sub_type_code).
map_project_subtype_no_default(row) ==
    LET project_type == row.ProjectTypeCode
        sub_type_code == row.ProjectSubTypeCode
    IN  IF project_type.t = "str" /\ project_type.v \in DOMAIN subtype_maps
           /\ sub_type_code.t = "str"
        THEN DictGetOrNone(subtype_maps[project_type.v], sub_type_code.v)
        ELSE sub_type_code

\* map_project_subtype(row), on the row whose ProjectTypeCode is mapped already.
map_project_subtype(row) ==
    LET project_type == row.ProjectTypeCode
        sub_type_code == row.ProjectSubTypeCode
    IN  IF project_type.t = "str" /\ project_type.v \in DOMAIN subtype_maps
           /\ sub_type_code.t = "str"
        THEN DictGet(subtype_maps[project_type.v], sub_type_code.v)
        ELSE sub_type_code

\* The columns mapped one after the other, and then the subtype column.
MapRow(row, refs) ==
    LET simple ==
            [row EXCEPT
                !.ProcessCode = MapElements(@, make_map(refs["TenderingProcessCode"])),
                !.ProjectTypeCode = MapElements(@, make_map(refs["ContractCode"])),
                !.CPVCode = MapElements(@, make_map(refs["CPV2008"])),
                !.CPVLotCode = MapElements(@, make_map(refs["CPV2008"]))]
    IN  [simple EXCEPT !.ProjectSubTypeCode = map_project_subtype(simple)]

map_codes(rows, refs) == [i \in DOMAIN rows |-> MapRow(rows[i], refs)]

InitMap ==
    /\ DedupIdle
    /\ FlatIdle
    /\ PipeIdle
    /\ XmlIdle
    /\ ExtractIdle
    /\ FilesIdle
    /\ CliIdle
    /\ DriverIdle
    /\ RecentIdle
    /\ ref_tables \in RefTableSets
    /\ raw \in SeqsUpTo(RawRows, MaxMapRows)
    /\ mapped = <<>>
    /\ mpc = "ready"

\* map_codes(data_path, raw_name, mapped_name)
MapCodes ==
    /\ mpc = "ready"
    /\ mapped' = map_codes(raw, ref_tables)
    /\ mpc' = "done"
    /\ UNCHANGED <<ref_tables, raw, exceptMap>>

NextMap == MapCodes

SpecMap == InitMap /\ [][NextMap]_vars

\* x.split("_"): the parts of a string between its underscores.
RECURSIVE Split(_)
Split(x) ==
    LET us == {i \in DOMAIN x : x[i] = "_"}
    IN  IF us = {} THEN <<x>>
        ELSE LET i == CHOOSE n \in us : \A m \in us : n <= m
             IN  <<SubSeq(x, 1, i - 1)>> \o Split(SubSeq(x, i + 1, Len(x)))

\* The labels of the non-empty parts of a delimited code string, in the order
\* of the parts, a part that is no code of the table kept as it is.
RECURSIVE LabelsOfParts(_, _)
LabelsOfParts(parts, tbl) ==
    IF parts = <<>> THEN <<>>
    ELSE LET p == Head(parts)
             hits == {i \in DOMAIN tbl : tbl[i].code = p}
         IN  (IF p = <<>> THEN <<>>
              ELSE IF hits = {} THEN <<p>>
              ELSE <<tbl[CHOOSE i \in hits : \A j \in hits : j <= i].nombre>>)
             \o LabelsOfParts(Tail(parts), tbl)

LabelsOf(x, tbl) == LabelsOfParts(Split(x), tbl)

\* C4: map_codes turns every CPVCode / CPVLotCode value into the ordered list
\* of the labels of its underscore-delimited parts: empty parts dropped, a part
\* without a label kept as it is, the empty string giving the empty list.
C4_CpvCodesBecomeLabelLists ==
    mpc = "done" =>
        \A i \in DOMAIN raw : \A col \in {"CPVCode", "CPVLotCode"} :
            /\ mapped[i][col].t = "list"
            /\ mapped[i][col].v = LabelsOf(raw[i][col].v, ref_tables["CPV2008"])

\* The reference file of a simply-mapped column.
RefFileOf(col) == IF col = "ProcessCode" THEN "TenderingProcessCode" ELSE "ContractCode"

\* C5: in every row, a ProcessCode / ProjectTypeCode cell whose code is a code
\* of the column's reference table becomes a `nombre` of that code, any other
\* cell keeps its code; no cell that held a code becomes null, and map_codes
\* returns a row for every row.
C5_SimpleCodesMappedOrKept ==
    mpc = "done" =>
        /\ Len(mapped) = Len(raw)
        /\ \A i \in DOMAIN raw : \A col \in {"ProcessCode", "ProjectTypeCode"} :
              LET in == raw[i][col]
                  out == mapped[i][col]
                  hits == {r \in Range(ref_tables[RefFileOf(col)]) : r.code = in.v}
              IN  in.t = "str" =>
                    /\ out.t = "str"
                    /\ IF hits = {} THEN out.v = in.v
                       ELSE \E r \in hits : out.v = r.nombre

\* C5's case: one row whose ProcessCode is in no table and is kept, and whose
\* ProjectTypeCode is a code of ContractCode and has become its nombre.
C5_Witness ==
    /\ mpc = "done" /\ Len(raw) >= 1
    /\ raw[1].ProcessCode = StrCell(S("UNKNOWN"))
    /\ mapped[1].ProcessCode = StrCell(S("UNKNOWN"))
    /\ raw[1].ProjectTypeCode = StrCell(S("Suministros"))
    /\ mapped[1].ProjectTypeCode = StrCell(S("Goods"))

\* The subtype reference file the selector names for a project-type label.
SubtypeFileOf(label) ==
    CASE label = S("Suministros") -> "GoodsContractCode"
      [] label = S("Servicios") -> "ServiceContractCode"
      [] label = S("Obras") -> "WorksContractCode"
      [] label = S("Patrimonial") -> "PatrimonialContractCode"
      [] OTHER -> "none"

\* C11: the subtype table is selected by the ProjectTypeCode of the mapped
\* row (the label the simple mapping gave it); a ProjectSubTypeCode becomes the
\* nombre of its code in that table, and keeps its code when the label selects
\* no table or the code is not in the selected table.
C11_SubtypeLookupByMappedLabel ==
    mpc = "done" =>
        \A i \in DOMAIN raw :
            LET label == mapped[i].ProjectTypeCode.v
                file == SubtypeFileOf(label)
                code == raw[i].ProjectSubTypeCode
                hits == IF file = "none" THEN {}
                        ELSE {r \in Range(SubtypeTables[file]) : r.code = code.v}
            IN  IF hits = {} THEN mapped[i].ProjectSubTypeCode = code
                ELSE \E r \in hits : mapped[i].ProjectSubTypeCode = StrCell(r.nombre)

\* C11's case: with ContractCode keyed by numbers, a row of type 1 is labelled
\* Suministros and its subtype code 001 has become the goods subtype, while
\* the row of an unknown type keeps its subtype code 001.
C11_Witness ==
    /\ mpc = "done" /\ Len(raw) = 2
    /\ raw[1].ProjectTypeCode = StrCell(S("1"))
    /\ mapped[1].ProjectTypeCode = StrCell(S("Suministros"))
    /\ raw[1].ProjectSubTypeCode = StrCell(S("001"))
    /\ mapped[1].ProjectSubTypeCode = StrCell(S("Goods Type 1"))
    /\ raw[2].ProjectTypeCode = StrCell(S("UnknownType"))
    /\ raw[2].ProjectSubTypeCode = StrCell(S("001"))
    /\ mapped[2].ProjectSubTypeCode = StrCell(S("001"))

(***************************************************************************)
(* Tree flattener                                                          *)
(***************************************************************************)

\* ---- bound of the flattener's inputs: the longest list
MaxList == 2

\* The values of a nested dict: a string (the text of a leaf element), None
\* (a leaf element without text), a dict (its entries in insertion order) or a
\* list.  Strings are token sequences, as above.
StrV(x) == [t |-> "s", v |-> x]
NoneV == [t |-> "n", v |-> <<>>]
DictV(entries) == [t |-> "d", v |-> entries]
ListV(items) == [t |-> "l", v |-> items]
Entry(k, v) == [k |-> k, v |-> v]

Leaves == {NoneV, StrV(<<>>), StrV(S("a")), StrV(S("b"))}

\* The dicts over the keys k and j (k first) with values in V.
DictsOver(V) ==
    {DictV(<<>>)}
    \cup {DictV(<<Entry(k, v)>>) : k \in {"k", "j"}, v \in V}
    \cup {DictV(<<Entry("k", v), Entry("j", w)>>) : v \in V, w \in V}

LeafDicts == DictsOver(Leaves)

\* What a list holds: leaves, the empty dict, one-key dicts of a leaf, two-key
\* dicts, and one-key dicts whose value is itself a dict or a list.
ListItems ==
    Leaves \cup {DictV(<<>>)}
    \cup {DictV(<<Entry(k, v)>>) : k \in {"k", "j"}, v \in Leaves}
    \cup {DictV(<<Entry("k", v), Entry("j", StrV(S("b")))>>) : v \in Leaves}
    \cup {DictV(<<Entry("k", DictV(<<Entry("j", StrV(S("a")))>>))>>),
          DictV(<<Entry("k", ListV(<<StrV(S("a")), StrV(S("b"))>>))>>)}

\* The lists of up to n elements.
Lists(n) == {ListV(l) : l \in SeqsUpTo(ListItems, n)}

\* The dicts handed to flatten_dict: the key p holding a leaf, a dict of up to
\* two levels or a list of up to n elements, and possibly a second key q
\* holding a leaf.
NestedDicts(n) ==
    LET V == Leaves \cup DictsOver(Leaves \cup LeafDicts) \cup Lists(n)
    IN  {DictV(<<Entry("p", v)>>) : v \in V}
        \cup {DictV(<<Entry("p", v), Entry("q", w)>>) : v \in V, w \in Leaves}

sep == "."

\* bool(x) of a value: a non-empty string, dict or list.
Truthy(x) == x.t # "n" /\ x.v # <<>>

\* str(x): a string is itself; None, a dict and a list give their rendering.
PyStr(x) ==
    CASE x.t = "s" -> x.v
      [] x.t = "n" -> S("None")
      [] x.t = "d" -> S("{dict}")
      [] OTHER -> S("[list]")

\* str(i) of a list index.
IndexStr(i) ==
    CASE i = 0 -> "0" [] i = 1 -> "1" [] i = 2 -> "2" [] i = 3 -> "3" [] OTHER -> "4"

\* "_".join(values)
RECURSIVE JoinUnderscore(_)
JoinUnderscore(values) ==
    IF values = <<>> THEN <<>>
    ELSE IF Len(values) = 1 THEN values[1]
    ELSE values[1] \o <<"_">> \o JoinUnderscore(Tail(values))

\* [str(item) for item in lst if item]
RECURSIVE TruthyStrs(_)
TruthyStrs(lst) ==
    IF lst = <<>> THEN <<>>
    ELSE (IF Truthy(Head(lst)) THEN <<PyStr(Head(lst))>> ELSE <<>>)
         \o TruthyStrs(Tail(lst))

\* dict(items).items(): one item per key, at the key's first position and with
\* its last value.
RECURSIVE DictItemsFrom(_, _)
DictItemsFrom(items, i) ==
    IF i > Len(items) THEN <<>>
    ELSE (IF \E j \in 1..(i - 1) : items[j].k = items[i].k THEN <<>>
          ELSE LET last == CHOOSE n \in DOMAIN items :
                               /\ items[n].k = items[i].k
                               /\ \A m \in DOMAIN items : items[m].k = items[i].k => m <= n
               IN  <<Entry(items[i].k, items[last].v)>>)
         \o DictItemsFrom(items, i + 1)

DictItems(items) == DictItemsFrom(items, 1)

RECURSIVE flatten_dict(_, _)
RECURSIVE FlattenEntries(_, _)
RECURSIVE NumberedItems(_, _, _)

\* The scalar branch of flatten_dict with `else` for `elif v`: every scalar
\* is kept, the empty ones too.
ScalarItem_keep_empty(new_key, v) == <<Entry(new_key, v)>>

\* elif v: items.append((new_key, v))
ScalarItem(new_key, v) == IF Truthy(v) THEN <<Entry(new_key, v)>> ELSE <<>>

\* A _flatten_dict_list without the single-key case: every element numbered.
_flatten_dict_list_numbered(lst, key) == NumberedItems(lst, key, 1)

\* _flatten_dict_list(lst, key, sep)
_flatten_dict_list(lst, key) ==
    LET first_dict == lst[1].v
        first_key == first_dict[1].k
        SameSingleKey ==
            /\ Len(first_dict) = 1
            /\ \A i \in DOMAIN lst : Len(lst[i].v) = 1 /\ lst[i].v[1].k = first_key
        values == TruthyStrs([i \in DOMAIN lst |-> lst[i].v[1].v])
    IN  IF SameSingleKey
        THEN (IF values # <<>>
              THEN <<Entry(key \o <<sep, first_key>>, StrV(JoinUnderscore(values)))>>
              ELSE <<>>)
        ELSE NumberedItems(lst, key, 1)

\* for i, item in enumerate(lst):
\*     items.extend(flatten_dict(item, f"{key}_{i}", sep=sep).items())
NumberedItems(lst, key, n) ==
    IF n > Len(lst) THEN <<>>
    ELSE flatten_dict(lst[n].v, key \o <<"_", IndexStr(n - 1)>>)
         \o NumberedItems(lst, key, n + 1)

\* _flatten_list(lst, key, sep)
_flatten_list(lst, key) ==
    IF lst = <<>> THEN <<>>
    ELSE IF \A i \in DOMAIN lst : lst[i].t = "d" THEN _flatten_dict_list(lst, key)
    ELSE LET values == TruthyStrs(lst)
         IN  IF values # <<>> THEN <<Entry(key, StrV(JoinUnderscore(values)))>> ELSE <<>>

\* The loop of flatten_dict over d.items(), from its first entry on.
FlattenEntries(entries, parent_key) ==
    IF entries = <<>> THEN <<>>
    ELSE LET k == Head(entries).k
             v == Head(entries).v
             new_key == IF parent_key # <<>> THEN parent_key \o <<sep, k>> ELSE <<k>>
         IN  (CASE v.t = "d" -> flatten_dict(v.v, new_key)
                [] v.t = "l" -> _flatten_list(v.v, new_key)
                [] OTHER -> ScalarItem(new_key, v))
             \o FlattenEntries(Tail(entries), parent_key)

\* flatten_dict(d, parent_key, sep), as the items of the dict it returns.
flatten_dict(entries, parent_key) == DictItems(FlattenEntries(entries, parent_key))

\* A dict given by its items, as the function from its keys to its values.
AsDict(items) ==
    [key \in {items[i].k : i \in DOMAIN items} |->
        items[CHOOSE i \in DOMAIN items : items[i].k = key].v]

InitFlatten ==
    /\ DedupIdle
    /\ MapIdle
    /\ PipeIdle
    /\ XmlIdle
    /\ ExtractIdle
    /\ FilesIdle
    /\ CliIdle
    /\ DriverIdle
    /\ RecentIdle
    /\ d \in NestedDicts(MaxList)
    /\ flat = <<>>
    /\ fpc = "ready"

\* flatten_dict(d)
FlattenDict ==
    /\ fpc = "ready"
    /\ flat' = AsDict(flatten_dict(d.v, <<>>))
    /\ fpc' = "done"
    /\ UNCHANGED <<d, exceptFlatten>>

NextFlatten == FlattenDict

SpecFlatten == InitFlatten /\ [][NextFlatten]_vars

\* v is a list of n >= 1 dicts that each have the single key kk, its value a
\* non-empty string.
SingleKeyList(v, kk) ==
    /\ v.t = "l" /\ Len(v.v) >= 1
    /\ \A i \in DOMAIN v.v :
          /\ v.v[i].t = "d" /\ Len(v.v[i].v) = 1
          /\ v.v[i].v[1].k = kk
          /\ v.v[i].v[1].v.t = "s" /\ v.v[i].v[1].v.v # <<>>

\* v1_v2_..._vn for the values of such a list, from its n-th element on.
RECURSIVE ValuesJoined(_, _)
ValuesJoined(lst, n) ==
    IF n = Len(lst) THEN lst[n].v[1].v.v
    ELSE lst[n].v[1].v.v \o <<"_">> \o ValuesJoined(lst, n + 1)

\* The keys of the flattened dict that come from the top-level key p.
KeysUnder(top) == {key \in DOMAIN flat : key[1] = top}

\* C6: a list of n >= 1 dicts with the same single key k and non-empty string
\* values v1..vn, stored under p, is flattened to exactly the one entry
\* p.k -> v1_v2_..._vn, and to no index-suffixed key.
C6_SingleKeyListJoined ==
    fpc = "done" =>
        \A kk \in {"k", "j"} :
            SingleKeyList(d.v[1].v, kk) =>
                /\ KeysUnder("p") = {<<"p", ".", kk>>}
                /\ flat[<<"p", ".", kk>>] = StrV(ValuesJoined(d.v[1].v.v, 1))

\* C6's case: [{'k': 'a'}, {'k': 'b'}] under p, flattened to p.k -> a_b.
C6_Witness ==
    /\ fpc = "done"
    /\ d.v[1].v = ListV(<<DictV(<<Entry("k", StrV(S("a")))>>),
                          DictV(<<Entry("k", StrV(S("b")))>>)>>)
    /\ KeysUnder("p") = {<<"p", ".", "k">>}
    /\ flat[<<"p", ".", "k">>] = StrV(<<"a", "_", "b">>)

\* A value holds a list somewhere.
RECURSIVE HasList(_)
HasList(x) ==
    \/ x.t = "l"
    \/ x.t = "d" /\ \E i \in DOMAIN x.v : HasList(x.v[i].v)

\* The dotted paths from the root to the non-empty leaves of a dict without
\* lists.
RECURSIVE LeafPaths(_, _)
LeafPaths(entries, prefix) ==
    UNION { LET e == entries[i]
                path == IF prefix = <<>> THEN <<e.k>> ELSE prefix \o <<".", e.k>>
            IN  IF e.v.t = "d" THEN LeafPaths(e.v.v, path)
                ELSE IF e.v.t = "s" /\ e.v.v # <<>> THEN {path}
                ELSE {} : i \in DOMAIN entries }

\* C7: no key of flatten_dict(d) maps to None or to the empty string, and for
\* a d without lists the keys are exactly the dotted paths to the non-empty
\* leaves of d.
C7_NoEmptyValuesAndLeafPaths ==
    fpc = "done" =>
        /\ \A key \in DOMAIN flat : flat[key].t = "s" /\ flat[key].v # <<>>
        /\ ~HasList(d) => DOMAIN flat = LeafPaths(d.v, <<>>)

\* C7's case: {'p': {'k': {'k': 'a', 'j': ''}}, 'q': 'b'} flattened to the
\* keys p.k.k and q, the empty leaf p.k.j dropped.
C7_Witness ==
    /\ fpc = "done"
    /\ d = DictV(<<Entry("p", DictV(<<Entry("k",
                DictV(<<Entry("k", StrV(S("a"))), Entry("j", StrV(<<>>))>>))>>)),
                   Entry("q", StrV(S("b")))>>)
    /\ DOMAIN flat = {<<"p", ".", "k", ".", "k">>, <<"q">>}

\* v is a non-empty list whose elements are all dicts.
DictList(v) ==
    v.t = "l" /\ Len(v.v) >= 1 /\ \A i \in DOMAIN v.v : v.v[i].t = "d"

\* Every element of the list is a dict with the single key kk, its value a
\* scalar leaf (a string or None).
SingleScalarKeyList(v, kk) ==
    \A i \in DOMAIN v.v :
        /\ Len(v.v[i].v) = 1
        /\ v.v[i].v[1].k = kk
        /\ v.v[i].v[1].v.t \in {"s", "n"}

\* The text is the rendering of a dict or of a list, alone or among the parts
\* of a joined string.
HoldsRendering(text) ==
    \E i \in DOMAIN text : text[i] \in {"{dict}", "[list]"}

\* C21: for a list of dicts under p, the joined key p.k is in the output only
\* if every element has the single key k with a scalar leaf as its value;
\* otherwise every key that comes from p is prefixed p_i for an index i of
\* the list; and no output value is the rendering of a dict or of a list.
C21_JoinedOnlyForScalarSingleKey ==
    (fpc = "done" /\ DictList(d.v[1].v)) =>
        /\ \A kk \in {"k", "j"} :
              <<"p", ".", kk>> \in DOMAIN flat => SingleScalarKeyList(d.v[1].v, kk)
        /\ (~\E kk \in {"k", "j"} : SingleScalarKeyList(d.v[1].v, kk)) =>
              \A key \in KeysUnder("p") :
                  /\ Len(key) >= 3 /\ key[2] = "_"
                  /\ \E i \in DOMAIN d.v[1].v.v : key[3] = IndexStr(i - 1)
        /\ \A key \in DOMAIN flat : ~HoldsRendering(flat[key].v)

(***************************************************************************)
(* Batched extraction                                                      *)
(***************************************************************************)

\* ---- bounds of the pipeline's inputs
MaxPaths == 3
MaxEntries == 3
\* batch_size = 100 in the source; the model runs it scaled down, so that a
\* path list of MaxPaths documents is cut into more than one batch.
batch_size == 2

\* The entry_data dicts get_data_list builds: an entry without a title, an
\* entry with every field, and an entry without `updated` whose <title/> has
\* no text (field.text is None).
EntryA == [link |-> "L1", updated |-> "2023-01-01T00:00:00Z"]
EntryB == [link |-> "L1", title |-> "T1", updated |-> "2023-01-02T00:00:00Z"]
EntryC == [link |-> "L2", title |-> NULL]
EntryData == {EntryA, EntryB, EntryC}

\* What get_data_list returns for a document: no row, one row, two rows.
DataLists ==
    {<<>>} \cup {<<e>> : e \in EntryData}
    \cup {<<EntryA, EntryB>>, <<EntryC, EntryA>>}

\* A document of the path list, by what get_atom_data / get_data_list do with
\* it: raise (a file that is no XML, a missing namespace), or return rows.
Doc(raises, data_list) == [raises |-> raises, data_list |-> data_list]
Docs == {Doc(TRUE, <<>>)} \cup {Doc(FALSE, l) : l \in DataLists}

RECURSIVE TotalEntries(_)
TotalEntries(ps) ==
    IF ps = <<>> THEN 0 ELSE Len(Head(ps).data_list) + TotalEntries(Tail(ps))

\* The path lists of up to n documents holding up to m entries in all.
PathLists(n, m) == {ps \in SeqsUpTo(Docs, n) : TotalEntries(ps) <= m}

\* A polars frame: its columns, their dtypes and its rows, every row a record
\* over the columns.
Frame(cols, dtypes, rows) == [cols |-> cols, dtypes |-> dtypes, rows |-> rows]

\* A row laid out over cols: null where the row has no such key.
Fill(r, cols) == [c \in cols |-> IF c \in DOMAIN r THEN r[c] ELSE NULL]

\* The dtype polars infers for a column of texts and Nones: Null when no row
\* holds a text.
InferDType(rows, c) ==
    IF \A k \in DOMAIN rows : rows[k][c] = NULL THEN "Null" ELSE "String"

\* pl.DataFrame(results) of a list of dicts: the columns are the keys of the
\* dicts, a dict without a key gets null.  (The batches of the model hold
\* fewer rows than polars' schema-inference window of 100 rows, so every row
\* takes part in the inference.)
DataFrame(data) ==
    LET cols == UNION {DOMAIN data[k] : k \in DOMAIN data}
        rows == [k \in DOMAIN data |-> Fill(data[k], cols)]
    IN  Frame(cols, [c \in cols |-> InferDType(rows, c)], rows)

\* What a worker hands back for a document: a list of rows, None, or the
\* exception that executor.map re-raises in the dispatching process.
DataList(l) == [kind |-> "list", data_list |-> l]
None == [kind |-> "None", data_list |-> <<>>]
WorkerRaised == [kind |-> "raise", data_list |-> <<>>]
Running == [kind |-> "running", data_list |-> <<>>]

\* A _process_single_file without its try/except: the exception of a
\* document leaves the worker.
_process_single_file_no_except(doc) ==
    IF doc.raises THEN WorkerRaised
    ELSE IF Len(doc.data_list) > 0 THEN DataList(doc.data_list) ELSE None

\* _process_single_file: the rows of the document, None for a document
\* without rows and None for a document whose processing raised.
_process_single_file(doc) ==
    IF doc.raises THEN None
    ELSE IF Len(doc.data_list) > 0 THEN DataList(doc.data_list) ELSE None

\* results.extend(result) over zip(paths_batch, results_iter), from position
\* k on: the rows of the results that are not None, in the order of the paths.
RECURSIVE Extend(_, _)
Extend(rs, k) ==
    IF k > Len(rs) THEN <<>>
    ELSE (IF rs[k].kind = "list" THEN rs[k].data_list ELSE <<>>) \o Extend(rs, k + 1)

\* A run that does not look at the count.
NoRecords_unchecked(total) == FALSE

\* if total_records == 0
NoRecords(total) == total = 0

\* The message-bearing ValueError of the zero-record check.
NoFilesError == "ValueError: No files were successfully processed"

\* The orders os.listdir may give the files of the directory in.
ListDir(files) ==
    LET n == Cardinality(DOMAIN files)
    IN  {o \in [1..n -> DOMAIN files] : \A a, b \in 1..n : a # b => o[a] # o[b]}

\* A concat that keeps the columns of the first frame only.
DiagonalCols_first(frames) == frames[1].cols

\* how="diagonal": the columns of the result are those of all the frames.
DiagonalCols(frames) == UNION {frames[k].cols : k \in DOMAIN frames}

\* The rows of the frames from position k on, one frame after the other, every
\* row laid out over cols.
RECURSIVE StackRows(_, _, _)
StackRows(frames, cols, k) ==
    IF k > Len(frames) THEN <<>>
    ELSE [r \in DOMAIN frames[k].rows |-> Fill(frames[k].rows[r], cols)]
         \o StackRows(frames, cols, k + 1)

\* Two frames hold the same column with different dtypes.
DTypeConflict(frames) ==
    \E a, b \in DOMAIN frames : \E c \in frames[a].cols \cap frames[b].cols :
        frames[a].dtypes[c] # frames[b].dtypes[c]

\* pl.concat(frames, how="diagonal"), as the set of its outcomes.  An empty
\* list raises ValueError.  Where a column is Null-typed in one frame and
\* String-typed in another, the strict concat either raises SchemaError or
\* casts the Null column, depending on the polars build; both are outcomes.
concat(frames) ==
    IF frames = <<>> THEN {[status |-> "ValueError", df |-> NoFrame]}
    ELSE LET cols == DiagonalCols(frames)
             rows == StackRows(frames, cols, 1)
         IN  {[status |-> "ok",
               df |-> Frame(cols, [c \in cols |-> InferDType(rows, c)], rows)]}
             \cup (IF DTypeConflict(frames)
                   THEN {[status |-> "SchemaError", df |-> NoFrame]} ELSE {})

\* The combined frame as remove_duplicates sees it: its columns, the dtype of
\* `updated` and its rows.
AsTable(f) ==
    Table(f.cols,
          IF "updated" \notin f.cols THEN "none"
          ELSE IF f.dtypes["updated"] = "String" THEN "Utf8" ELSE "Null",
          f.rows)

\* The file left in the spill directory by an earlier run that raised after
\* writing its second batch.
StaleFrame == DataFrame(<<[link |-> "L2", title |-> "T2", updated |-> "2023-01-01T00:00:00Z"]>>)

\* The spill directory before the run: absent, left empty (an earlier run
\* that raised on zero records) or left with batch_1.parquet in it.
EarlierTmpDirs ==
    {[exists |-> FALSE, files |-> <<>>],
     [exists |-> TRUE, files |-> <<>>],
     [exists |-> TRUE, files |-> [n \in {1} |-> StaleFrame]]}

\* get_full_parquet is called with a strategy of the CLI or any other text;
\* get_parquet_open_tenders always deduplicates by link.
DupStrategies(v) == IF v = "open_tenders" THEN {"link"} ELSE {"link", "None", "foo"}

InitPipeline ==
    /\ DedupIdle
    /\ MapIdle
    /\ FlatIdle
    /\ XmlIdle
    /\ ExtractIdle
    /\ FilesIdle
    /\ CliIdle
    /\ DriverIdle
    /\ RecentIdle
    /\ variant \in {"dl_parser", "open_tenders"}
    /\ paths \in PathLists(MaxPaths, MaxEntries)
    /\ dup_strategy \in DupStrategies(variant)
    /\ tmp_dir \in EarlierTmpDirs
    /\ loop_i = 0
    /\ batch_paths = <<>>
    /\ workers = <<>>
    /\ results = <<>>
    /\ total_records = 0
    /\ final_df = NoFrame
    /\ parquet_file = [written |-> FALSE, df |-> NoTable]
    /\ pstatus = "running"
    /\ ppc = "start"

\* The exception e leaves the run.
Raise(e) ==
    /\ pstatus' = e
    /\ ppc' = "raised"

\* os.makedirs(tmp_dir, exist_ok=True); total_records = 0
MakeTmpDir ==
    /\ ppc = "start"
    /\ tmp_dir' = [tmp_dir EXCEPT !.exists = TRUE]
    /\ ppc' = "loop"
    /\ UNCHANGED <<variant, paths, dup_strategy, loop_i, batch_paths, workers,
                   results, total_records, final_df, parquet_file, pstatus>>
    /\ UNCHANGED exceptPipeline

\* A slice that starts one element early.
Slice_from_previous(ps, lo, hi) ==
    SubSeq(ps, IF lo > 0 THEN lo ELSE 1, IF hi < Len(ps) THEN hi ELSE Len(ps))

\* ps[lo : hi] of Python, for 0 <= lo <= hi: the elements at the 0-based
\* positions lo .. hi - 1 that the list has.
Slice(ps, lo, hi) ==
    SubSeq(ps, lo + 1, IF hi < Len(ps) THEN hi ELSE Len(ps))

\* One turn of the loop up to executor.map: the slice paths[i : i + batch_size]
\* is handed to the pool of the batch.
DispatchBatch ==
    /\ ppc = "loop"
    /\ loop_i < Len(paths)
    /\ batch_paths' = Slice(paths, loop_i, loop_i + batch_size)
    /\ workers' = [k \in DOMAIN batch_paths' |-> Running]
    /\ results' = <<>>
    /\ ppc' = "workers"
    /\ UNCHANGED <<variant, paths, dup_strategy, tmp_dir, loop_i, total_records,
                   final_df, parquet_file, pstatus>>
    /\ UNCHANGED exceptPipeline

\* A worker of the pool finishes its document, in any order.
WorkerReturns ==
    /\ ppc = "workers"
    /\ \E k \in DOMAIN workers :
         /\ workers[k] = Running
         /\ workers' = [workers EXCEPT ![k] = _process_single_file(batch_paths[k])]
    /\ UNCHANGED <<variant, paths, dup_strategy, tmp_dir, loop_i, batch_paths,
                   results, total_records, final_df, parquet_file, pstatus, ppc>>
    /\ UNCHANGED exceptPipeline

\* A pool that is left as soon as one of its workers has returned.
PoolDone_first(ws) == \E k \in DOMAIN ws : ws[k] # Running

\* The with block of the pool is left: executor.map has yielded the result of
\* every document and the pool has shut down, no worker still running.
PoolDone(ws) == \A k \in DOMAIN ws : ws[k] # Running

\* The directory after df.write_parquet(batch_{n}.parquet): a file of that name
\* is replaced.
WriteSpill(dir, n, frame) ==
    [dir EXCEPT !.files =
        [m \in DOMAIN dir.files \cup {n} |-> IF m = n THEN frame ELSE dir.files[m]]]

\* The rest of _process_batch and of the loop's turn, once the pool has shut
\* down: the results are collected in the order of the paths, a worker's
\* exception is re-raised, a batch with rows is written to its spill file and
\* its row count is added to total_records.
CollectBatch ==
    /\ ppc = "workers"
    /\ PoolDone(workers)
    /\ workers' = <<>>
    /\ IF \E k \in DOMAIN workers : workers[k].kind = "raise"
       THEN /\ Raise("WorkerError")
            /\ UNCHANGED <<results, tmp_dir, total_records, loop_i>>
       ELSE /\ results' = Extend(workers, 1)
            /\ tmp_dir' = IF results' # <<>>
                          THEN WriteSpill(tmp_dir, loop_i \div batch_size, DataFrame(results'))
                          ELSE tmp_dir
            /\ total_records' = total_records + Len(results')
            /\ loop_i' = loop_i + batch_size
            /\ ppc' = "loop"
            /\ UNCHANGED pstatus
    /\ UNCHANGED <<variant, paths, dup_strategy, batch_paths, final_df, parquet_file>>
    /\ UNCHANGED exceptPipeline

\* The loop is over: a run without a single row raises.
CheckTotal ==
    /\ ppc = "loop"
    /\ loop_i >= Len(paths)
    /\ IF NoRecords(total_records)
       THEN Raise(NoFilesError)
       ELSE /\ ppc' = "combine"
            /\ UNCHANGED pstatus
    /\ UNCHANGED <<variant, paths, dup_strategy, tmp_dir, loop_i, batch_paths,
                   workers, results, total_records, final_df, parquet_file>>
    /\ UNCHANGED exceptPipeline

\* parquet_files = the *.parquet files of tmp_dir; final_df = their diagonal
\* concat.
Combine ==
    /\ ppc = "combine"
    /\ \E parquet_files \in ListDir(tmp_dir.files) :
       \E r \in concat([k \in DOMAIN parquet_files |-> tmp_dir.files[parquet_files[k]]]) :
          IF r.status = "ok"
          THEN /\ final_df' = r.df
               /\ ppc' = "combined"
               /\ UNCHANGED pstatus
          ELSE /\ Raise(r.status)
               /\ UNCHANGED final_df
    /\ UNCHANGED <<variant, paths, dup_strategy, tmp_dir, loop_i, batch_paths,
                   workers, results, total_records, parquet_file>>
    /\ UNCHANGED exceptPipeline

\* A clean-up that removes the files and keeps the directory.
RemoveFiles_keep_dir(dir, names) ==
    [exists |-> TRUE, files |-> [n \in DOMAIN dir.files \ names |-> dir.files[n]]]

\* The directory after os.remove of the files named and os.rmdir, which
\* removes a directory that has become empty.
RemoveFiles(dir, names) ==
    LET left == [n \in DOMAIN dir.files \ names |-> dir.files[n]]
    IN  [exists |-> DOMAIN left # {}, files |-> left]

\* os.remove of every combined file, os.rmdir(tmp_dir).  get_concat_df cleans
\* up before it returns the table; get_parquet_open_tenders after it has
\* written the output table.
Cleanup ==
    /\ \/ variant = "dl_parser" /\ ppc = "combined"
       \/ variant = "open_tenders" /\ ppc = "written"
    /\ tmp_dir' = RemoveFiles(tmp_dir, DOMAIN tmp_dir.files)
    /\ IF variant = "dl_parser"
       THEN /\ ppc' = "dedup"
            /\ UNCHANGED pstatus
       ELSE /\ ppc' = "done"
            /\ pstatus' = "ok"
    /\ UNCHANGED <<variant, paths, dup_strategy, loop_i, batch_paths, workers,
                   results, total_records, final_df, parquet_file>>
    /\ UNCHANGED exceptPipeline

\* remove_duplicates of the combined table and write_parquet of the result
\* (apply_mapping is left at its default "N"); get_full_parquet returns after
\* the write.
DeduplicateAndWrite ==
    /\ \/ variant = "dl_parser" /\ ppc = "dedup"
       \/ variant = "open_tenders" /\ ppc = "combined"
    /\ \E r \in remove_duplicates(AsTable(final_df), dup_strategy) :
          IF r.status = "ok"
          THEN /\ parquet_file' = [written |-> TRUE, df |-> r.df]
               /\ IF variant = "dl_parser"
                  THEN ppc' = "done" /\ pstatus' = "ok"
                  ELSE ppc' = "written" /\ UNCHANGED pstatus
          ELSE /\ Raise(r.status)
               /\ UNCHANGED parquet_file
    /\ UNCHANGED <<variant, paths, dup_strategy, tmp_dir, loop_i, batch_paths,
                   workers, results, total_records, final_df>>
    /\ UNCHANGED exceptPipeline

NextPipeline ==
    \/ MakeTmpDir
    \/ DispatchBatch
    \/ WorkerReturns
    \/ CollectBatch
    \/ CheckTotal
    \/ Combine
    \/ Cleanup
    \/ DeduplicateAndWrite

SpecPipeline == InitPipeline /\ [][NextPipeline]_vars

\* The number of rows of the files named in names.
RECURSIVE SumRows(_, _)
SumRows(files, names) ==
    IF names = {} THEN 0
    ELSE LET n == CHOOSE m \in names : TRUE
         IN  Len(files[n].rows) + SumRows(files, names \ {n})

\* The number of rows of the files named in names that are x once laid out
\* over cols.
RECURSIVE SumCopies(_, _, _, _)
SumCopies(files, names, cols, x) ==
    IF names = {} THEN 0
    ELSE LET n == CHOOSE m \in names : TRUE
         IN  Cardinality({k \in DOMAIN files[n].rows : Fill(files[n].rows[k], cols) = x})
             + SumCopies(files, names \ {n}, cols, x)

\* C8: the table combined from the spill files has the union of their columns
\* and the sum of their row counts; every row of every spill file is in it as
\* many times as in the files, with null in the columns its file lacks.
C8_CombineKeepsColumnsAndRows ==
    ppc = "combined" =>
        LET files == tmp_dir.files
            cols == final_df.cols
        IN  /\ cols = UNION {files[n].cols : n \in DOMAIN files}
            /\ Len(final_df.rows) = SumRows(files, DOMAIN files)
            /\ \A n \in DOMAIN files : \A k \in DOMAIN files[n].rows :
                 LET x == Fill(files[n].rows[k], cols)
                 IN  /\ \A c \in cols \ files[n].cols : x[c] = NULL
                     /\ Cardinality({j \in DOMAIN final_df.rows : final_df.rows[j] = x})
                          = SumCopies(files, DOMAIN files, cols, x)

\* C8's case: two spill files with different columns have been combined, and
\* a row of the file that lacks `title` is in the table with a null title.
C8_Witness ==
    /\ ppc = "combined"
    /\ {0, 1} \subseteq DOMAIN tmp_dir.files
    /\ "title" \notin tmp_dir.files[0].cols
    /\ "title" \in tmp_dir.files[1].cols
    /\ Len(final_df.rows) >= 2
    /\ \E j \in DOMAIN final_df.rows :
         final_df.rows[j] = Fill(tmp_dir.files[0].rows[1], final_df.cols)
         /\ final_df.rows[j].title = NULL

\* C9: a run whose batches produced no row at all (every document failed or
\* was empty, or there was no document) ends in the zero-record ValueError,
\* without a combined table and without an output table file.
C9_ZeroRowsRaises ==
    (ppc \notin {"start", "loop", "workers"} /\ total_records = 0) =>
        /\ ppc = "raised"
        /\ pstatus = NoFilesError
        /\ final_df = NoFrame
        /\ ~parquet_file.written

\* C9's case: a run over a document that raised and a document without rows
\* has raised the zero-record error, with an earlier run's spill file still in
\* the directory.
C9_Witness ==
    /\ ppc = "raised" /\ pstatus = NoFilesError
    /\ \E k \in DOMAIN paths : paths[k].raises
    /\ \E k \in DOMAIN paths : ~paths[k].raises /\ paths[k].data_list = <<>>
    /\ DOMAIN tmp_dir.files # {}
    /\ ~parquet_file.written

\* The rows of the documents of ps that were processed without an exception,
\* in the order of ps.
RECURSIVE RowsOfSuccessful(_)
RowsOfSuccessful(ps) ==
    IF ps = <<>> THEN <<>>
    ELSE (IF Head(ps).raises THEN <<>> ELSE Head(ps).data_list)
         \o RowsOfSuccessful(Tail(ps))

\* C10: the rows collected for a batch are exactly the rows of its documents
\* that were processed without an exception; no exception of a document
\* reaches the batch or the run, and the zero-record error is raised only by a
\* run without a single row.
C10_DocumentFailureConfined ==
    /\ pstatus # "WorkerError"
    /\ (ppc \notin {"start", "workers"} /\ batch_paths # <<>>) =>
          results = RowsOfSuccessful(batch_paths)
    /\ pstatus = NoFilesError => total_records = 0

\* C10's case: a run whose last batch held a document that raised and a
\* document with rows has ended normally with its output table written.
C10_Witness ==
    /\ ppc = "done" /\ pstatus = "ok" /\ parquet_file.written
    /\ \E k \in DOMAIN batch_paths : batch_paths[k].raises
    /\ results # <<>>

\* C13: a run of get_full_parquet with a deduplication strategy outside the
\* accepted ones raises before any I/O: it never gets past its start except by
\* raising ValueError, no document is handed to a worker, no spill file is
\* written or removed and no output table is written.
C13_InvalidStrategyRaisedBeforeIO ==
    (variant = "dl_parser" /\ dup_strategy \notin {"id", "link", "title", "None"}) =>
        /\ ppc \in {"start", "raised"}
        /\ ppc = "raised" => pstatus = "ValueError"
        /\ workers = <<>> /\ total_records = 0
        /\ tmp_dir \in EarlierTmpDirs
        /\ ~parquet_file.written

\* C17: the loop cuts the path list into contiguous batches: it starts at
\* position 0, every batch dispatched is paths[i : i + batch_size] for a
\* multiple i of batch_size short of the list's end, the loop moves on by
\* batch_size and ends only past the last path; the rows collected for a batch
\* are those of its documents in the order of the batch's paths, each
\* document's rows in their order, in whatever order the workers returned.
C17_ContiguousBatchesInPathOrder ==
    [][/\ ppc = "start" => loop_i = 0
       /\ (ppc = "loop" /\ ppc' = "workers") =>
              /\ loop_i % batch_size = 0
              /\ loop_i < Len(paths)
              /\ LET n == IF Len(paths) - loop_i < batch_size
                          THEN Len(paths) - loop_i ELSE batch_size
                 IN  batch_paths' = [k \in 1..n |-> paths[loop_i + k]]
       /\ (ppc = "workers" /\ ppc' = "loop") =>
              /\ loop_i' = loop_i + batch_size
              /\ results' = RowsOfSuccessful(batch_paths)
       /\ (ppc = "loop" /\ ppc' \notin {"loop", "workers"}) => loop_i >= Len(paths)]_vars

\* C17's case: a list of three documents was cut into a batch of two and a
\* batch of one, every document with a row, and both batches are collected.
C17_Witness ==
    /\ ppc = "loop"
    /\ Len(paths) = 3
    /\ loop_i = 2 * batch_size
    /\ \A k \in 1..3 : ~paths[k].raises /\ Len(paths[k].data_list) = 1
    /\ batch_paths = <<paths[3]>>
    /\ results = paths[3].data_list
    /\ total_records = 3

\* C18: a worker is running only between the dispatch of its batch and the
\* collection of that batch; a batch is dispatched only when no pool is left
\* and, where the batch before it had rows, with that batch's spill file
\* written; a spill file is written only in a step of the dispatching process
\* that starts with no worker running.
C18_BatchesDoNotOverlap ==
    [][/\ (\E k \in DOMAIN workers : workers[k] = Running) =>
              /\ ppc = "workers"
              /\ DOMAIN workers = DOMAIN batch_paths
       /\ (ppc = "loop" /\ ppc' = "workers") =>
              /\ workers = <<>>
              /\ (loop_i > 0 /\ results # <<>>) =>
                    /\ (loop_i \div batch_size) - 1 \in DOMAIN tmp_dir.files
                    /\ tmp_dir.files[(loop_i \div batch_size) - 1] = DataFrame(results)
       /\ (\E n \in DOMAIN tmp_dir'.files :
               n \notin DOMAIN tmp_dir.files \/ tmp_dir'.files[n] # tmp_dir.files[n]) =>
              /\ ppc = "workers" /\ ppc' = "loop"
              /\ \A k \in DOMAIN workers : workers[k] # Running
              /\ workers' = <<>>]_vars

\* C18's case: the second batch is with its pool, a worker still running,
\* after the first batch's two rows were collected and written to
\* batch_0.parquet.
C18_Witness ==
    /\ ppc = "workers"
    /\ loop_i = batch_size
    /\ \E k \in DOMAIN workers : workers[k] = Running
    /\ total_records = 2
    /\ 0 \in DOMAIN tmp_dir.files
    /\ Len(tmp_dir.files[0].rows) = 2

\* C19: once the combined table is returned (get_concat_df) or the run is
\* over (get_parquet_open_tenders), the spill directory is gone and with it
\* every file that was combined; a step that removes a spill file starts with
\* the combined table in memory, holding the rows of every file of the
\* directory.
C19_SpillFilesRemovedAfterRead ==
    [][/\ ((variant' = "dl_parser" /\ ppc' \in {"dedup", "done"})
              \/ (variant' = "open_tenders" /\ ppc' = "done")) =>
              /\ ~tmp_dir'.exists
              /\ DOMAIN tmp_dir'.files = {}
       /\ (\E n \in DOMAIN tmp_dir.files : n \notin DOMAIN tmp_dir'.files) =>
              /\ final_df # NoFrame
              /\ Len(final_df.rows) = SumRows(tmp_dir.files, DOMAIN tmp_dir.files)
              /\ DOMAIN tmp_dir'.files = {}]_vars

\* C19's case: get_concat_df has combined the spill files of two batches,
\* three rows in all, removed them and returned the table.
C19_Witness ==
    /\ variant = "dl_parser"
    /\ ppc = "dedup"
    /\ Len(paths) = 3 /\ total_records = 3
    /\ Len(final_df.rows) >= 3
    /\ ~tmp_dir.exists

\* C27: the combined table holds exactly the rows of the documents of the
\* current call: as many rows as the call's batches collected, each of them a
\* row of one of the call's documents laid out over the table's columns.
C27_OnlyRowsOfCurrentCall ==
    final_df # NoFrame =>
        /\ Len(final_df.rows) = Len(RowsOfSuccessful(paths))
        /\ \A n \in DOMAIN final_df.rows :
              \E r \in Range(RowsOfSuccessful(paths)) :
                  Fill(r, final_df.cols) = final_df.rows[n]

(***************************************************************************)
(* Element tree conversion                                                 *)
(***************************************************************************)

\* ---- bound of the converter's input: the children of the root element
MaxChildren == 3

\* An element: its qualified tag "{ns}name", its text (a string or None) and
\* its children in document order.
QName(ns, name) == [ns |-> ns, name |-> name]
Element(tag, text, children) == [tag |-> tag, text |-> text, children |-> children]

\* child.tag.split("}")[-1]: the tag without its namespace.
LocalName(tag) == tag.name

Texts == {NoneV, StrV(S("x")), StrV(S("y"))}

\* Leaf elements: a and b in one namespace, a in a second namespace.
LeafElements ==
    {Element(t, x, <<>>) :
        t \in {QName("cbc", "a"), QName("cac", "a"), QName("cbc", "b")}, x \in Texts}

\* Elements with children: one or two leaves under the tag a or b.
InnerLeaves == {Element(QName("cbc", n), StrV(S("x")), <<>>) : n \in {"a", "b"}}
NestedElements ==
    {Element(QName("cac", n), NoneV, c) :
        n \in {"a", "b"}, c \in SeqsUpTo(InnerLeaves, 2) \ {<<>>}}

\* The elements handed to recursive_field_dict: a root with up to n children.
Roots(n) ==
    {Element(QName("cac-place-ext", "ContractFolderStatus"), NoneV, c) :
        c \in SeqsUpTo(LeafElements \cup NestedElements, n)}

\* The position of key in the dict d, 0 when d has no such key.
KeyIndex(fd, key) ==
    IF \E n \in DOMAIN fd : fd[n].k = key
    THEN CHOOSE n \in DOMAIN fd : fd[n].k = key
    ELSE 0

\* existing_value turned into a list unless it is one, and value appended.
AppendToKey(fd, n, value) ==
    [fd EXCEPT ![n].v = IF @.t = "l" THEN ListV(@.v \o <<value>>)
                        ELSE ListV(<<@, value>>)]

\* An _add_to_dict that assigns d[key] = value whatever d holds.
_add_to_dict_overwrite(fd, key, value) ==
    IF KeyIndex(fd, key) # 0
    THEN [fd EXCEPT ![KeyIndex(fd, key)].v = value]
    ELSE fd \o <<Entry(key, value)>>

\* _add_to_dict(d, key, value)
_add_to_dict(fd, key, value) ==
    IF KeyIndex(fd, key) # 0
    THEN AppendToKey(fd, KeyIndex(fd, key), value)
    ELSE fd \o <<Entry(key, value)>>

RECURSIVE recursive_field_dict(_, _)
RECURSIVE FieldDictFrom(_, _, _)

\* The body of the loop for one child: a leaf goes through _add_to_dict, an
\* element with children is converted into a dict of its own that is stored
\* under the tag, or appended to what the tag holds already.
AddChild(fd, child) ==
    LET tag == LocalName(child.tag)
        has_children == Len(child.children) > 0
    IN  IF ~has_children THEN _add_to_dict(fd, tag, child.text)
        ELSE IF KeyIndex(fd, tag) = 0
             THEN fd \o <<Entry(tag, DictV(recursive_field_dict(child, <<>>)))>>
             ELSE AppendToKey(fd, KeyIndex(fd, tag),
                              DictV(recursive_field_dict(child, <<>>)))

\* for child in field, from the k-th child on.
FieldDictFrom(children, k, fd) ==
    IF k > Len(children) THEN fd
    ELSE FieldDictFrom(children, k + 1, AddChild(fd, children[k]))

\* recursive_field_dict(field, field_dict): the entries of field_dict after
\* the call.
recursive_field_dict(fld, fd) == FieldDictFrom(fld.children, 1, fd)

InitXml ==
    /\ DedupIdle
    /\ MapIdle
    /\ FlatIdle
    /\ PipeIdle
    /\ ExtractIdle
    /\ FilesIdle
    /\ CliIdle
    /\ DriverIdle
    /\ RecentIdle
    /\ field \in Roots(MaxChildren)
    /\ field_dict = <<>>
    /\ xpc = "ready"

\* details_dict = {}; recursive_field_dict(details, details_dict)
RecursiveFieldDict ==
    /\ xpc = "ready"
    /\ field_dict' = recursive_field_dict(field, <<>>)
    /\ xpc' = "done"
    /\ UNCHANGED <<field, exceptXml>>

NextXml == RecursiveFieldDict

SpecXml == InitXml /\ [][NextXml]_vars

\* The positions of the children whose tag (without namespace) is name, in
\* document order.
RECURSIVE PositionsOf(_, _, _)
PositionsOf(children, name, k) ==
    IF k > Len(children) THEN <<>>
    ELSE (IF LocalName(children[k].tag) = name THEN <<k>> ELSE <<>>)
         \o PositionsOf(children, name, k + 1)

RECURSIVE ExpectedDictFrom(_, _)

\* What a child stands for: its text for a leaf, a nested mapping for an
\* element with children.
ExpectedValue(child) ==
    IF child.children = <<>> THEN child.text
    ELSE DictV(ExpectedDictFrom(child.children, 1))

\* One entry per tag, in the order of the tags' first occurrences: the bare
\* value of a tag that occurs once, the list of the values of all its
\* occurrences, in document order, for a tag that occurs several times.
ExpectedDictFrom(children, k) ==
    IF k > Len(children) THEN <<>>
    ELSE LET name == LocalName(children[k].tag)
             pos == PositionsOf(children, name, 1)
         IN  (IF pos[1] # k THEN <<>>
              ELSE IF Len(pos) = 1 THEN <<Entry(name, ExpectedValue(children[k]))>>
              ELSE <<Entry(name, ListV([n \in DOMAIN pos |-> ExpectedValue(children[pos[n]])]))>>)
             \o ExpectedDictFrom(children, k + 1)

\* C20: recursive_field_dict stores, under a tag that n >= 2 children of an
\* element have, the list of exactly n items in document order (the text of a
\* leaf child, a nested mapping for a child with children), and under a tag
\* that one child has the bare text or the bare nested mapping, at every level.
C20_RepeatedTagsBecomeLists ==
    xpc = "done" => field_dict = ExpectedDictFrom(field.children, 1)

\* C20's case: the tag a occurs three times (a text, an element with two
\* children of one tag, a text) and the tag b once.
C20_Witness ==
    /\ xpc = "done"
    /\ Len(field.children) = 3
    /\ field_dict =
         <<Entry("a", ListV(<<StrV(S("x")),
                              DictV(<<Entry("b", ListV(<<StrV(S("x")), StrV(S("x"))>>))>>),
                              StrV(S("y"))>>))>>

(***************************************************************************)
(* Extractors                                                              *)
(***************************************************************************)

\* ---- bound of the extractors' input: the entries of a document
MaxDocEntries == 2

\* datetime.now().date(), as the ordinal of the day among the days below.
Today == 2

\* datetime.strptime(end_date, "%Y-%m-%d").date(): the ordinal of the day, 0
\* standing for the ValueError of a text that is no such date.
ParseDate(x) ==
    CASE x = S("2024-01-01") -> 1
      [] x = S("2024-01-02") -> 2
      [] x = S("2024-01-03") -> 3
      [] OTHER -> 0

\* The texts of an EndDate element: yesterday, today, tomorrow, and a date
\* followed by a time.
EndDateTexts == {S("2024-01-01"), S("2024-01-02"), S("2024-01-03"), <<"2024-01-03", "T00:00">>}

\* The texts of a ContractFolderStatusCode element.
StatusCodeTexts == {S("PUB"), S("EV")}

\* "no such element" in the description of an entry.
Absent == <<"<absent>">>

\* <link href="..."/>
LinkElement(href) ==
    [tag |-> QName("atom", "link"), text |-> NoneV, children |-> <<>>, href |-> href]

\* The ContractFolderStatus element with the given status code and deadline,
\* either of which may be absent.
StatusBlock(code, end) ==
    Element(QName("cac-place-ext", "ContractFolderStatus"), NoneV,
        (IF code = Absent THEN <<>>
         ELSE <<Element(QName("cbc-place-ext", "ContractFolderStatusCode"), StrV(code), <<>>)>>)
        \o (IF end = Absent THEN <<>>
            ELSE <<Element(QName("cac", "TenderingProcess"), NoneV,
                     <<Element(QName("cac", "TenderSubmissionDeadlinePeriod"), NoneV,
                         <<Element(QName("cbc", "EndDate"), StrV(end), <<>>)>>)>>)>>))

\* What varies between the entries of the model: whether the entry has a
\* status block, the block's status code and deadline, whether the entry
\* has a summary, and the tag of one more leaf child of the block, if any.
EntryKind(block, code, end, summary) ==
    [block |-> block, code |-> code, end |-> end, summary |-> summary, extra |-> Absent]

\* An open entry whose status block has one more leaf child, of the given tag.
ExtraKind(tag) ==
    [block |-> TRUE, code |-> S("PUB"), end |-> S("2024-01-03"), summary |-> TRUE,
     extra |-> tag]

\* The tags of that child: the folder id of the feed, and a tag that is also
\* the tag of a child of the entry.
ExtraTags == {S("ContractFolderID"), S("title")}

EntryKinds ==
    {EntryKind(FALSE, Absent, Absent, TRUE)}
    \cup {EntryKind(TRUE, c, e, TRUE) :
            c \in StatusCodeTexts \cup {Absent}, e \in EndDateTexts \cup {Absent}}
    \cup {EntryKind(TRUE, S("PUB"), S("2024-01-03"), FALSE)}
    \cup {ExtraKind(tag) : tag \in ExtraTags}

\* The element with one more child at its end.
WithChild(element, child) ==
    [element EXCEPT !.children = Append(@, child)]

\* The k-th entry of a document: id, link, summary, title, updated and the
\* status block, the id, link and title telling the entries apart.
MakeEntry(k, kind) ==
    Element(QName("atom", "entry"), NoneV,
        <<Element(QName("atom", "id"), StrV(<<"id", IndexStr(k)>>), <<>>),
          LinkElement(StrV(<<"link", IndexStr(k)>>))>>
        \o (IF kind.summary
            THEN <<Element(QName("atom", "summary"), StrV(S("summary")), <<>>)>>
            ELSE <<>>)
        \o <<Element(QName("atom", "title"), StrV(<<"title", IndexStr(k)>>), <<>>),
             Element(QName("atom", "updated"), StrV(S("2024-01-01T00:00:00Z")), <<>>)>>
        \o (IF ~kind.block THEN <<>>
            ELSE IF kind.extra = Absent THEN <<StatusBlock(kind.code, kind.end)>>
            ELSE <<WithChild(StatusBlock(kind.code, kind.end),
                             Element(QName("cbc", kind.extra[1]), StrV(S("inner")), <<>>))>>))

\* The documents of up to n entries.
Documents(n) ==
    {[k \in DOMAIN kinds |-> MakeEntry(k, kinds[k])] : kinds \in SeqsUpTo(EntryKinds, n)}

\* for field in entry: entry_data[tag] = field.text if tag != "link" else
\* field.get("href"); a later child of a tag replaces an earlier one.
EntryFields(entry) ==
    LET cs == entry.children
    IN  [key \in {S(LocalName(cs[n].tag)) : n \in DOMAIN cs} |->
            LET last == CHOOSE n \in DOMAIN cs :
                          /\ S(LocalName(cs[n].tag)) = key
                          /\ \A m \in DOMAIN cs : S(LocalName(cs[m].tag)) = key => m <= n
            IN  IF key # S("link") THEN cs[last].text ELSE cs[last].href]

\* entry.find("cac-place-ext:ContractFolderStatus", ns): the first such child,
\* None when there is none.
NoElement == Element(QName("", ""), NoneV, <<>>)
Find(entry) ==
    LET cs == entry.children
        hits == {n \in DOMAIN cs : cs[n].tag = QName("cac-place-ext", "ContractFolderStatus")}
    IN  IF hits = {} THEN NoElement
        ELSE cs[CHOOSE n \in hits : \A m \in hits : n <= m]

\* recursive_field_dict(details, details_dict); flatten_dict(details_dict)
FlatDetails(details) == AsDict(flatten_dict(recursive_field_dict(details, <<>>), <<>>))

\* d.get(key)
Get(dct, key) == IF key \in DOMAIN dct THEN dct[key] ELSE NoneV

\* a.update(b)
Update(a, b) == [key \in DOMAIN a \cup DOMAIN b |-> IF key \in DOMAIN b THEN b[key] ELSE a[key]]

\* d.pop(key) of a key that d has.
Pop(dct, key) == [k \in DOMAIN dct \ {key} |-> dct[k]]

\* The keys of flat_details the open-tenders extractor reads.
StatusKey == S("ContractFolderStatusCode")
EndDateKey == <<"TenderingProcess", ".", "TenderSubmissionDeadlinePeriod", ".", "EndDate">>

\* open_tenders_cols, for the two keys the entries of the model can hold (the
\* other thirteen keys are renamed in the same way).
open_tenders_cols ==
    [key \in {StatusKey, EndDateKey} |->
        IF key = StatusKey THEN S("StatusCode") ELSE S("ProcessEndDate")]

\* {v: flat_details[k] for k, v in open_tenders_cols.items() if k in flat_details}
filtered_details(fd) ==
    [col \in {open_tenders_cols[key] : key \in DOMAIN open_tenders_cols \cap DOMAIN fd} |->
        fd[CHOOSE key \in DOMAIN open_tenders_cols \cap DOMAIN fd : open_tenders_cols[key] = col]]

\* The row get_data_list builds for an entry: the entry's fields, the
\* flattened status block merged into them, summary and ContractFolderStatus
\* popped when present.
GeneralRow(entry) ==
    LET entry_data == EntryFields(entry)
        details == Find(entry)
        merged == IF details # NoElement
                  THEN Update(entry_data, FlatDetails(details)) ELSE entry_data
    IN  [key \in DOMAIN merged \ {S("summary"), S("ContractFolderStatus")} |-> merged[key]]

\* get_data_list(entries, ns): one row per entry.
get_data_list(es) == [k \in DOMAIN es |-> GeneralRow(es[k])]

\* The state of the local flat_details: not assigned yet, or a dict.
Unbound == [bound |-> FALSE, d |-> <<>>]
Bound(dct) == [bound |-> TRUE, d |-> dct]

\* A status test that lets every status code through and stops only an entry
\* without one.
NotPublished_no_code(status) == status = NoneV

\* if status != "PUB"
NotPublished(status) == status # StrV(S("PUB"))

\* A deadline test that lets the deadline of today through.
DeadlinePassed_before(end_date) == end_date = NoneV \/ ParseDate(end_date.v) < Today

\* if end_date is None or strptime(end_date).date() <= now().date(), for an
\* end_date that is a date.
DeadlinePassed(end_date) == end_date = NoneV \/ ParseDate(end_date.v) <= Today

\* One turn of the loop of get_data_list_open_tenders on entry, fd being
\* flat_details as the turn before left it: the exception raised, "continue",
\* or "append" with the row, and flat_details after the turn.  (The entries of
\* the model carry no amount, so the float casts find nothing to cast.)
OpenTendersTurn(entry, fd) ==
    LET entry_data == EntryFields(entry)
        details == Find(entry)
        now_fd == IF details # NoElement THEN Bound(FlatDetails(details)) ELSE fd
        status == Get(now_fd.d, StatusKey)
        end_date == Get(now_fd.d, EndDateKey)
        updated == Update(entry_data, filtered_details(now_fd.d))
        Out(kind, row) == [kind |-> kind, fd |-> now_fd, row |-> row]
    IN  IF ~now_fd.bound THEN Out("UnboundLocalError", <<>>)
        ELSE IF NotPublished(status) THEN Out("continue", <<>>)
        ELSE IF end_date # NoneV /\ ParseDate(end_date.v) = 0 THEN Out("ValueError", <<>>)
        ELSE IF DeadlinePassed(end_date) THEN Out("continue", <<>>)
        ELSE IF ~({S("id"), S("summary"), S("ContractFolderStatus")} \subseteq DOMAIN updated)
             THEN Out("KeyError", <<>>)
        ELSE Out("append",
                 Pop(Pop(Pop(updated, S("id")), S("summary")), S("ContractFolderStatus")))

InitExtract ==
    /\ DedupIdle
    /\ MapIdle
    /\ FlatIdle
    /\ PipeIdle
    /\ XmlIdle
    /\ FilesIdle
    /\ CliIdle
    /\ DriverIdle
    /\ RecentIdle
    /\ atom_entries \in Documents(MaxDocEntries)
    /\ loop_entry = 1
    /\ flat_details = Unbound
    /\ ot_data = <<>>
    /\ ostatus = "running"
    /\ gdata = <<>>
    /\ gpc = "ready"

\* data_list = get_data_list(entries, ns)
GetDataList ==
    /\ gpc = "ready"
    /\ gdata' = get_data_list(atom_entries)
    /\ gpc' = "done"
    /\ UNCHANGED <<atom_entries, loop_entry, flat_details, ot_data, ostatus, exceptExtract>>

\* One turn of `for entry in entries` in get_data_list_open_tenders.
OpenTendersEntry ==
    /\ ostatus = "running"
    /\ loop_entry <= Len(atom_entries)
    /\ LET out == OpenTendersTurn(atom_entries[loop_entry], flat_details)
       IN  /\ flat_details' = out.fd
           /\ ot_data' = IF out.kind = "append" THEN Append(ot_data, out.row) ELSE ot_data
           /\ IF out.kind \in {"append", "continue"}
              THEN loop_entry' = loop_entry + 1 /\ UNCHANGED ostatus
              ELSE ostatus' = out.kind /\ UNCHANGED loop_entry
    /\ UNCHANGED <<atom_entries, gdata, gpc, exceptExtract>>

\* return data
OpenTendersReturn ==
    /\ ostatus = "running"
    /\ loop_entry > Len(atom_entries)
    /\ ostatus' = "returned"
    /\ UNCHANGED <<atom_entries, loop_entry, flat_details, ot_data, gdata, gpc, exceptExtract>>

NextExtract == GetDataList \/ OpenTendersEntry \/ OpenTendersReturn

SpecExtract == InitExtract /\ [][NextExtract]_vars

\* The text of the ContractFolderStatusCode of an entry's own status block,
\* Absent when the entry has no block or the block no such element.
StatusCodeOf(entry) ==
    LET block == Find(entry)
        hits == {n \in DOMAIN block.children :
                    LocalName(block.children[n].tag) = "ContractFolderStatusCode"}
    IN  IF hits = {} THEN Absent
        ELSE block.children[CHOOSE n \in hits : TRUE].text.v

\* The rows of rows that carry the link of entry.
RowsOfEntry(rows, entry) ==
    {n \in DOMAIN rows : rows[n][S("link")] = EntryFields(entry)[S("link")]}

\* C12: every row of the open-tenders extractor carries the link of an entry
\* whose status code is PUB (and PUB as its StatusCode); an entry with another
\* status code has no row there, while get_data_list returns exactly one row
\* for it, and one row for every entry of the document.
C12_OnlyPublishedEntriesEmitted ==
    /\ \A n \in DOMAIN ot_data :
          /\ ot_data[n][S("StatusCode")] = StrV(S("PUB"))
          /\ \E k \in DOMAIN atom_entries :
                /\ RowsOfEntry(ot_data, atom_entries[k]) = {n}
                /\ StatusCodeOf(atom_entries[k]) = S("PUB")
    /\ \A k \in DOMAIN atom_entries :
          StatusCodeOf(atom_entries[k]) # S("PUB") =>
              /\ RowsOfEntry(ot_data, atom_entries[k]) = {}
              /\ gpc = "done" => Cardinality(RowsOfEntry(gdata, atom_entries[k])) = 1
    /\ gpc = "done" => Len(gdata) = Len(atom_entries)

\* C12's case: of a document with an EV entry and a PUB entry, both with a
\* deadline after today, the open-tenders extractor has returned the PUB
\* entry's row only and get_data_list a row for each.
C12_Witness ==
    /\ ostatus = "returned" /\ gpc = "done"
    /\ Len(atom_entries) = 2
    /\ StatusCodeOf(atom_entries[1]) = S("EV")
    /\ StatusCodeOf(atom_entries[2]) = S("PUB")
    /\ Len(ot_data) = 1
    /\ RowsOfEntry(ot_data, atom_entries[2]) = {1}
    /\ RowsOfEntry(gdata, atom_entries[1]) = {1}
    /\ gdata[1][StatusKey] = StrV(S("EV"))

\* The text of the EndDate of an entry's own status block, Absent when the
\* entry has no block or the block no deadline.
EndDateOf(entry) ==
    LET block == Find(entry)
        hits == {n \in DOMAIN block.children :
                    LocalName(block.children[n].tag) = "TenderingProcess"}
    IN  IF hits = {} THEN Absent
        ELSE block.children[CHOOSE n \in hits : TRUE].children[1].children[1].text.v

\* C22: every row of the open-tenders extractor carries the link of an entry
\* whose own deadline is a date after today, and that date as its
\* ProcessEndDate; a PUB entry whose deadline is today, before today or
\* absent has no row.
C22_DeadlineStrictlyAfterToday ==
    /\ \A n \in DOMAIN ot_data :
          \E k \in DOMAIN atom_entries :
              /\ RowsOfEntry(ot_data, atom_entries[k]) = {n}
              /\ EndDateOf(atom_entries[k]) # Absent
              /\ ParseDate(EndDateOf(atom_entries[k])) > Today
              /\ ot_data[n][S("ProcessEndDate")] = StrV(EndDateOf(atom_entries[k]))
    /\ \A k \in DOMAIN atom_entries :
          (/\ StatusCodeOf(atom_entries[k]) = S("PUB")
           /\ \/ EndDateOf(atom_entries[k]) = Absent
              \/ ParseDate(EndDateOf(atom_entries[k])) \in 1..Today) =>
              RowsOfEntry(ot_data, atom_entries[k]) = {}

\* C22's case: of a document with a PUB entry whose deadline is today and a
\* PUB entry whose deadline is tomorrow, the extractor has returned the row of
\* the second only.
C22_Witness ==
    /\ ostatus = "returned"
    /\ Len(atom_entries) = 2
    /\ StatusCodeOf(atom_entries[1]) = S("PUB") /\ StatusCodeOf(atom_entries[2]) = S("PUB")
    /\ ParseDate(EndDateOf(atom_entries[1])) = Today
    /\ ParseDate(EndDateOf(atom_entries[2])) = Today + 1
    /\ Len(ot_data) = 1
    /\ RowsOfEntry(ot_data, atom_entries[2]) = {1}

\* An entry the open-tenders extractor is to emit: a status block of its own
\* with the code PUB and a deadline after today, and the children the
\* extractor pops.
OpenEntry(entry) ==
    /\ Find(entry) # NoElement
    /\ StatusCodeOf(entry) = S("PUB")
    /\ EndDateOf(entry) # Absent /\ ParseDate(EndDateOf(entry)) > Today
    /\ S("summary") \in DOMAIN EntryFields(entry)

\* C28: the extractor never raises at an entry that has no status block, such
\* an entry never has a row, and when the extractor returns every open entry
\* of the document has its row.
C28_EntryJudgedByOwnStatusBlock ==
    /\ ostatus \in {"UnboundLocalError", "KeyError", "ValueError"} =>
          Find(atom_entries[loop_entry]) # NoElement
    /\ \A k \in DOMAIN atom_entries :
          Find(atom_entries[k]) = NoElement => RowsOfEntry(ot_data, atom_entries[k]) = {}
    /\ ostatus = "returned" =>
          \A k \in DOMAIN atom_entries :
              OpenEntry(atom_entries[k]) =>
                  Cardinality(RowsOfEntry(ot_data, atom_entries[k])) = 1

\* The columns get_data_list takes from the entry's own children.
EntryColumns == {S("id"), S("link"), S("title"), S("updated")}

\* C29: in every row of get_data_list the columns id, link, title and updated
\* hold the values of the entry's own direct children (the href for link),
\* whatever the entry's status block holds.
C29_MergeKeepsEntryColumns ==
    gpc = "done" =>
        \A k \in DOMAIN atom_entries :
            \A col \in EntryColumns :
                /\ col \in DOMAIN gdata[k]
                /\ gdata[k][col] = EntryFields(atom_entries[k])[col]

(***************************************************************************)
(* Raw-document folders                                                    *)
(***************************************************************************)

\* ---- bound of a run: the calls made on the data folder
MaxOps == 3

\* The periods a caller may name: a year and a month.
Periods == {"2023", "202401"}

\* The catalogs get_source_data may return: the URL of the archive of each of
\* the periods it lists.
UrlOf(period) == <<"https://", period, ".zip">>
Catalogs == {[period \in ps |-> UrlOf(period)] : ps \in SUBSET Periods}

\* A folder of the data path: whether it exists, and its files.
NoFolder == [exists |-> FALSE, files |-> {}]
Folder(files) == [exists |-> TRUE, files |-> files]

\* The files of an archive, and a file left in a folder by an earlier download.
ArchiveFiles == {"a.atom", "b.atom"}
OldFiles == {"old.atom"}

\* The data folder before a run: absent, or with each period folder absent,
\* empty or holding an old file.
FileSystems ==
    {[base |-> FALSE, folders |-> [period \in Periods |-> NoFolder]]}
    \cup {[base |-> TRUE, folders |-> f] :
            f \in [Periods -> {NoFolder, Folder({}), Folder(OldFiles)}]}

\* get_folder_path(period, data_path): os.makedirs(folder, exist_ok=True)
\* creates the folder and the folders above it unless they exist.
get_folder_path(fs0, period) ==
    [base |-> TRUE,
     folders |-> [fs0.folders EXCEPT ![period] = IF @.exists THEN @ ELSE Folder({})]]

\* What a call leaves behind: the outcome ("ok" or the exception), the period
\* the exception's message names, the file system and the URLs requested.
Outcome(status, names, fs1, urls) ==
    [status |-> status, names |-> names, fs |-> fs1, urls |-> urls]

\* delete_files(period, data_path): the folder is looked up through
\* get_folder_path, listed, and removed when os.path.exists says it exists.
delete_files(fs0, period) ==
    LET fs1 == get_folder_path(fs0, period)
    IN  IF fs1.folders[period].exists
        THEN Outcome("ok", "none", [fs1 EXCEPT !.folders[period] = NoFolder], <<>>)
        ELSE Outcome("FileNotFoundError", period, fs1, <<>>)

\* A period check that looks the folder up before it raises.
MissingPeriod_after_folder(fs0, period) ==
    Outcome("ValueError", period, get_folder_path(fs0, period), <<>>)

\* raise ValueError(f"The period {period} is not available in the source data.")
MissingPeriod(fs0, period) == Outcome("ValueError", period, fs0, <<>>)

\* What the server and the archive may do to a download: deliver the
\* archive, fail to connect, answer with an error status, deliver bytes that
\* are no zip file.
Responses == {"ok", "ConnectionError", "HTTPError", "BadZipFile"}

\* download_and_extract_zip(source_data, period, data_path), the server
\* answering with response.
download_and_extract_zip(sd, fs0, period, response) ==
    IF period \notin DOMAIN sd THEN MissingPeriod(fs0, period)
    ELSE LET fs1 == get_folder_path(fs0, period)
             urls == <<sd[period]>>
         IN  IF response # "ok" THEN Outcome(response, "none", fs1, urls)
             ELSE Outcome("ok", "none",
                          [fs1 EXCEPT !.folders[period] = Folder(@.files \cup ArchiveFiles)],
                          urls)

InitFiles ==
    /\ DedupIdle
    /\ MapIdle
    /\ FlatIdle
    /\ PipeIdle
    /\ XmlIdle
    /\ ExtractIdle
    /\ CliIdle
    /\ DriverIdle
    /\ RecentIdle
    /\ source_data \in Catalogs
    /\ fs \in FileSystems
    /\ http_log = <<>>
    /\ last_call = [op |-> "none", period |-> "none", status |-> "none", names |-> "none"]
    /\ ops = 0

\* The call op(period) has been made with the outcome out.
Called(op, period, out) ==
    /\ fs' = out.fs
    /\ http_log' = http_log \o out.urls
    /\ last_call' = [op |-> op, period |-> period, status |-> out.status, names |-> out.names]
    /\ ops' = ops + 1
    /\ UNCHANGED <<source_data, exceptFiles>>

\* One call download_and_extract_zip(source_data, period).
DownloadAndExtractZip ==
    /\ ops < MaxOps
    /\ \E period \in Periods : \E response \in Responses :
          Called("download_and_extract_zip", period,
                 download_and_extract_zip(source_data, fs, period, response))

\* One call delete_files(period).
DeleteFiles ==
    /\ ops < MaxOps
    /\ \E period \in Periods : Called("delete_files", period, delete_files(fs, period))

NextFiles == DownloadAndExtractZip \/ DeleteFiles

SpecFiles == InitFiles /\ [][NextFiles]_vars

\* C14: a call delete_files(period) removes the period's folder when it
\* exists; when it does not exist the call raises FileNotFoundError and leaves
\* the file system as it was, creating no directory.
C14_DeleteFilesRaisesWhenAbsent ==
    [][(ops' = ops + 1 /\ last_call'.op = "delete_files") =>
          LET period == last_call'.period
          IN  IF fs.folders[period].exists
              THEN last_call'.status = "ok" /\ ~fs'.folders[period].exists
              ELSE last_call'.status = "FileNotFoundError" /\ fs' = fs]_vars

\* C15: a call download_and_extract_zip for a period that is no key of the
\* catalog raises an error that names the period, requests no URL and leaves
\* the file system as it was.
C15_UnknownPeriodRaisesBeforeAnyEffect ==
    [][(ops' = ops + 1 /\ last_call'.op = "download_and_extract_zip"
            /\ last_call'.period \notin DOMAIN source_data) =>
          /\ last_call'.status = "ValueError"
          /\ last_call'.names = last_call'.period
          /\ http_log' = http_log
          /\ fs' = fs]_vars

\* C15's case: the first call of a run asked for a period the catalog does
\* not list, while it lists the other one; the call has raised naming the
\* period, nothing was requested and the data folder is still absent.
C15_Witness ==
    /\ ops = 1
    /\ last_call.op = "download_and_extract_zip"
    /\ last_call.period = "202401"
    /\ DOMAIN source_data = {"2023"}
    /\ last_call.status = "ValueError" /\ last_call.names = "202401"
    /\ http_log = <<>>
    /\ ~fs.base

(***************************************************************************)
(* Driver                                                                  *)
(***************************************************************************)

\* The longest list of selected periods.
MaxSelected == 2

\* The del_files arguments: the two answers main accepts and another text.
DelFilesArgs == {"Y", "N", "y"}

\* What the documents of a folder may do to get_full_parquet: let it write
\* the table, leave it without a row, or make the concat raise.
Contents == {"ok", "ValueError", "SchemaError"}

\* os.path.join(folder_parquet, f"{period}.parquet")
ParquetPath(period) == <<"data/raw/parquet/", period, ".parquet">>

\* A test that takes every answer but N for a yes.
DeleteRequested_unless_no(arg) == arg # "N"

\* if del_files == "Y"
DeleteRequested(arg) == arg = "Y"

\* get_full_parquet(period, dup_strategy, apply_mapping): the period's folder
\* is looked up through get_folder_path and listed; a folder without files
\* ends in the zero-record ValueError, any other folder in what its documents
\* make of the run.  The outcome names the path of the table written.
get_full_parquet(fs0, period, content) ==
    LET fs1 == get_folder_path(fs0, period)
    IN  IF fs1.folders[period].files = {}
        THEN Outcome("ValueError", "none", fs1, <<>>)
        ELSE Outcome(content, IF content = "ok" THEN ParquetPath(period) ELSE "none",
                     fs1, <<>>)

\* A call in the log of the run.
Call(op, period, status) == [op |-> op, period |-> period, status |-> status]

InitDriver ==
    /\ DedupIdle
    /\ MapIdle
    /\ FlatIdle
    /\ PipeIdle
    /\ XmlIdle
    /\ ExtractIdle
    /\ CliIdle
    /\ RecentIdle
    /\ source_data \in Catalogs
    /\ fs \in FileSystems
    /\ http_log = <<>>
    /\ last_call = [op |-> "none", period |-> "none", status |-> "none", names |-> "none"]
    /\ ops = 0
    /\ dp_selected \in SeqsUpTo(Periods, MaxSelected)
    /\ dp_del_files \in DelFilesArgs
    /\ dp_k = 1
    /\ dp_log = <<>>
    /\ dp_parquet_files = <<>>
    /\ dp_pc = "download"

\* The call op(period) of a loop's turn has ended with the outcome out: the
\* loop goes on to its next turn, or the exception leaves dl_parser.
Turn(op, period, out) ==
    /\ fs' = out.fs
    /\ http_log' = http_log \o out.urls
    /\ dp_log' = Append(dp_log, Call(op, period, out.status))
    /\ IF out.status = "ok"
       THEN dp_k' = dp_k + 1 /\ UNCHANGED dp_pc
       ELSE dp_pc' = "raised" /\ UNCHANGED dp_k
    /\ UNCHANGED <<source_data, dp_selected, dp_del_files, exceptDriver>>

\* A turn of the first loop: download_and_extract_zip(source_data, selected_period)
DownloadPeriod ==
    /\ dp_pc = "download"
    /\ dp_k <= Len(dp_selected)
    /\ \E response \in Responses :
          Turn("download_and_extract_zip", dp_selected[dp_k],
               download_and_extract_zip(source_data, fs, dp_selected[dp_k], response))
    /\ UNCHANGED dp_parquet_files

\* The first loop is over: parquet_files = []
DownloadsDone ==
    /\ dp_pc = "download"
    /\ dp_k > Len(dp_selected)
    /\ dp_pc' = "parse"
    /\ dp_k' = 1
    /\ dp_parquet_files' = <<>>
    /\ UNCHANGED <<source_data, fs, http_log, dp_selected, dp_del_files, dp_log, exceptDriver>>

\* A turn of the second loop: get_full_parquet(period=selected_period, ...) and
\* parquet_files.append(parquet_file)
ParsePeriod ==
    /\ dp_pc = "parse"
    /\ dp_k <= Len(dp_selected)
    /\ \E content \in Contents :
          LET out == get_full_parquet(fs, dp_selected[dp_k], content)
          IN  /\ Turn("get_full_parquet", dp_selected[dp_k], out)
              /\ dp_parquet_files' =
                    IF out.status = "ok"
                    THEN Append(dp_parquet_files, out.names) ELSE dp_parquet_files

\* The second loop is over: if del_files == "Y" the third loop starts,
\* otherwise dl_parser returns parquet_files.
ParsesDone ==
    /\ dp_pc = "parse"
    /\ dp_k > Len(dp_selected)
    /\ dp_pc' = IF DeleteRequested(dp_del_files) THEN "delete" ELSE "returned"
    /\ dp_k' = 1
    /\ UNCHANGED <<source_data, fs, http_log, dp_selected, dp_del_files, dp_log,
                   dp_parquet_files, exceptDriver>>

\* A turn of the third loop: delete_files(selected_period)
DeletePeriod ==
    /\ dp_pc = "delete"
    /\ dp_k <= Len(dp_selected)
    /\ Turn("delete_files", dp_selected[dp_k], delete_files(fs, dp_selected[dp_k]))
    /\ UNCHANGED dp_parquet_files

\* The third loop is over: return parquet_files
DeletesDone ==
    /\ dp_pc = "delete"
    /\ dp_k > Len(dp_selected)
    /\ dp_pc' = "returned"
    /\ UNCHANGED <<source_data, fs, http_log, dp_selected, dp_del_files, dp_k, dp_log,
                   dp_parquet_files, exceptDriver>>

NextDriver ==
    \/ DownloadPeriod
    \/ DownloadsDone
    \/ ParsePeriod
    \/ ParsesDone
    \/ DeletePeriod
    \/ DeletesDone

SpecDriver == InitDriver /\ [][NextDriver]_vars

\* The positions of the log that hold a call of op.
CallsOf(op) == {n \in DOMAIN dp_log : dp_log[n].op = op}

\* The periods of the calls of op, in the order of the calls.
PeriodsCalled(op) ==
    LET calls_of_op == SelectSeq(dp_log, LAMBDA c : c.op = op)
    IN  [n \in DOMAIN calls_of_op |-> calls_of_op[n].period]

\* s is a prefix of t.
IsPrefix(s, t) == Len(s) <= Len(t) /\ \A n \in DOMAIN s : s[n] = t[n]

MaxCatalog == 4

\* A period code is a year ("2023") or a year followed by a month ("202412"),
\* here the sequence of its two parts.
YearCodes == {<<"2023">>}
MonthCodes == {<<"2024", "11">>, <<"2024", "12">>, <<"2025", "01">>, <<"2025", "02">>}

\* len(k) > 4
IsMonthly(k) == Len(k) > 1

\* int(x[-2:]) of a monthly code.
MonthNumber(k) ==
    CASE k[2] = "01" -> 1 [] k[2] = "02" -> 2 [] k[2] = "11" -> 11 [] OTHER -> 12

\* The keys of source_dict in the order of the dict: up to n distinct codes.
SourceDicts(n) ==
    {ks \in SeqsUpTo(YearCodes \cup MonthCodes, n) :
        \A a, b \in DOMAIN ks : a # b => ks[a] # ks[b]}

\* sorted(ks, key=lambda x: int(x[-2:]), reverse=True): from the highest month
\* number to the lowest, the codes of one month number in the order they
\* had (the sort is stable, reverse=True included).
SortedByMonth(ks) ==
    LET Rank(a) == 1 + Cardinality({b \in DOMAIN ks :
                        \/ MonthNumber(ks[b]) > MonthNumber(ks[a])
                        \/ MonthNumber(ks[b]) = MonthNumber(ks[a]) /\ b < a})
    IN  [n \in DOMAIN ks |-> ks[CHOOSE a \in DOMAIN ks : Rank(a) = n]]

\* s[:3]
FirstThree(ks) == SubSeq(ks, 1, IF Len(ks) < 3 THEN Len(ks) ELSE 3)

\* The keys of source_dict_recent, in the order of source_dict: the monthly
\* keys that are among the first three of the sorted monthly keys.
source_dict_recent(source_dict) ==
    LET monthly == SelectSeq(source_dict, IsMonthly)
        top == Range(FirstThree(SortedByMonth(monthly)))
    IN  SelectSeq(source_dict, LAMBDA k : IsMonthly(k) /\ k \in top)

InitRecent ==
    /\ DedupIdle
    /\ MapIdle
    /\ FlatIdle
    /\ PipeIdle
    /\ XmlIdle
    /\ ExtractIdle
    /\ FilesIdle
    /\ CliIdle
    /\ DriverIdle
    /\ rc_source \in SourceDicts(MaxCatalog)
    /\ rc_months = <<>>
    /\ rc_downloads = <<>>
    /\ rc_pc = "ready"

\* download_recent_data(source_url, data_path): the months are chosen and
\* downloaded one after the other; a download that raises ends the call.
DownloadRecentData ==
    /\ rc_pc = "ready"
    /\ LET last_months == source_dict_recent(rc_source)
       IN  /\ rc_months' = last_months
           /\ \E done \in 0..Len(last_months) :
                 /\ rc_downloads' = SubSeq(last_months, 1, done)
                 /\ rc_pc' = IF done = Len(last_months) THEN "returned" ELSE "raised"
    /\ UNCHANGED <<rc_source, exceptRecent>>

NextRecent == DownloadRecentData

SpecRecent == InitRecent /\ [][NextRecent]_vars

\* The place of a monthly code in year-month order.
YearMonth(k) == (IF k[1] = "2024" THEN 0 ELSE 12) + MonthNumber(k)

\* The monthly codes of the catalog that fewer than three monthly codes of the
\* catalog come after in year-month order.
LatestThree(ks) ==
    {k \in Range(ks) :
        /\ IsMonthly(k)
        /\ Cardinality({j \in Range(ks) : IsMonthly(j) /\ YearMonth(j) > YearMonth(k)}) < 3}

\* C26: a call of download_recent_data that returns has downloaded, once each,
\* the three monthly periods of the catalog that are latest in year-month
\* order (every monthly period when there are fewer than three) and no yearly
\* period, and returns those periods.
C26_ThreeLatestMonthsDownloaded ==
    rc_pc = "returned" =>
        /\ Range(rc_downloads) = LatestThree(rc_source)
        /\ Len(rc_downloads) = Cardinality(LatestThree(rc_source))
        /\ Range(rc_months) = LatestThree(rc_source)

----------------------------------------------------------------------------
\* Command line (src/src/dl_parser/main.py, main)
\*
\* main fetches the catalog, asks five questions in turn, each one again
\* until its answer is accepted, and then either calls itself (confirmation
\* "N") or calls dl_parser with the answers. A typed line is a sequence of
\* tokens: a period name, some other word, a blank or a comma.

\* The longest line typed at the periods prompt, in tokens.
MaxTyped == 3

\* The deepest nesting of main within main.
MaxRestarts == 2

TypedTokens == Periods \cup {"1999", " ", ","}

Typed(n) == UNION {[1..k -> TypedTokens] : k \in 0..n}

\* str.replace(" ", "")
RemoveBlanks(line) == SelectSeq(line, LAMBDA t : t # " ")

\* str.split(","): the pieces between the commas, one piece at least.
RECURSIVE SplitAtCommas(_)
SplitAtCommas(line) ==
    IF \A k \in 1..Len(line) : line[k] # ","
    THEN <<line>>
    ELSE LET k == CHOOSE c \in 1..Len(line) :
                      line[c] = "," /\ \A b \in 1..(c - 1) : line[b] # ","
         IN  <<SubSeq(line, 1, k - 1)>> \o SplitAtCommas(SubSeq(line, k + 1, Len(line)))

prompt_for_period(line) == SplitAtCommas(RemoveBlanks(line))

\* The keys of a catalog get_source_data may return.
CatalogKeys == {{<<p>> : p \in ps} : ps \in SUBSET Periods}

yes_or_no == {"Y", "N"}

\* ["id", "title", "link", "None"]
main_strategies == {"id", "title", "link", "None"}

\* What may be typed at the other prompts.
StrategyAnswers == main_strategies \cup {"", "ID"}
YesNoAnswers == yes_or_no \cup {"", "y"}

AllIn_any(selected, available) ==
    \E k \in 1..Len(selected) : selected[k] \in available

\* all(selected_period in periods for selected_period in selected_periods)
AllIn(selected, available) ==
    \A k \in 1..Len(selected) : selected[k] \in available

\* The keyword arguments of the call of dl_parser.
DlParserCall ==
    [selected_periods |-> selected_periods,
     dup_strategy |-> main_dup_strategy,
     apply_mapping |-> apply_mapping,
     del_files |-> del_files]

InitCli ==
    /\ DedupIdle
    /\ MapIdle
    /\ FlatIdle
    /\ PipeIdle
    /\ XmlIdle
    /\ ExtractIdle
    /\ FilesIdle
    /\ DriverIdle
    /\ RecentIdle
    /\ periods \in CatalogKeys
    /\ selected_periods = <<>>
    /\ main_dup_strategy = NotAsked
    /\ apply_mapping = NotAsked
    /\ del_files = NotAsked
    /\ confirmation = NotAsked
    /\ dl_parser_calls = <<>>
    /\ restarts = 0
    /\ cpc = "periods"

\* The periods prompt and the test of its loop.
AnswerPeriods ==
    /\ cpc = "periods"
    /\ \E line \in Typed(MaxTyped) :
          /\ selected_periods' = prompt_for_period(line)
          /\ cpc' = IF AllIn(selected_periods', periods) THEN "dup_strategy" ELSE "periods"
    /\ UNCHANGED <<periods, main_dup_strategy, apply_mapping, del_files, confirmation,
                   dl_parser_calls, restarts, exceptCli>>

\* The duplicate strategy prompt and the test of its loop.
AnswerDuplicateStrategy ==
    /\ cpc = "dup_strategy"
    /\ \E typed \in StrategyAnswers :
          /\ main_dup_strategy' = typed
          /\ cpc' = IF typed \notin main_strategies THEN "dup_strategy" ELSE "apply_mapping"
    /\ UNCHANGED <<periods, selected_periods, apply_mapping, del_files, confirmation,
                   dl_parser_calls, restarts, exceptCli>>

\* The mapping prompt and the test of its loop.
AnswerMappingApplication ==
    /\ cpc = "apply_mapping"
    /\ \E typed \in YesNoAnswers :
          /\ apply_mapping' = typed
          /\ cpc' = IF typed \notin yes_or_no THEN "apply_mapping" ELSE "del_files"
    /\ UNCHANGED <<periods, selected_periods, main_dup_strategy, del_files, confirmation,
                   dl_parser_calls, restarts, exceptCli>>

\* The file deletion prompt and the test of its loop.
AnswerFileHandling ==
    /\ cpc = "del_files"
    /\ \E typed \in YesNoAnswers :
          /\ del_files' = typed
          /\ cpc' = IF typed \notin yes_or_no THEN "del_files" ELSE "confirmation"
    /\ UNCHANGED <<periods, selected_periods, main_dup_strategy, apply_mapping,
                   confirmation, dl_parser_calls, restarts, exceptCli>>

\* The confirmation prompt, the test of its loop and what follows it: on "N"
\* main calls itself, which fetches the catalog again and starts with no
\* answer bound; otherwise dl_parser is called, and when it returns every
\* nested main returns in turn, none of them having anything left to do.
AnswerConfirmation ==
    /\ cpc = "confirmation"
    /\ \E typed \in YesNoAnswers :
          IF typed \notin yes_or_no
          THEN /\ confirmation' = typed
               /\ UNCHANGED <<periods, selected_periods, main_dup_strategy, apply_mapping,
                              del_files, dl_parser_calls, restarts, cpc>>
          ELSE IF typed = "N"
          THEN /\ restarts < MaxRestarts
               /\ periods' \in CatalogKeys
               /\ selected_periods' = <<>>
               /\ main_dup_strategy' = NotAsked
               /\ apply_mapping' = NotAsked
               /\ del_files' = NotAsked
               /\ confirmation' = NotAsked
               /\ restarts' = restarts + 1
               /\ cpc' = "periods"
               /\ UNCHANGED dl_parser_calls
          ELSE /\ confirmation' = typed
               /\ dl_parser_calls' = Append(dl_parser_calls, DlParserCall)
               /\ cpc' \in {"exit", "raised"}
               /\ UNCHANGED <<periods, selected_periods, main_dup_strategy, apply_mapping,
                              del_files, restarts>>
    /\ UNCHANGED exceptCli

NextCli ==
    \/ AnswerPeriods
    \/ AnswerDuplicateStrategy
    \/ AnswerMappingApplication
    \/ AnswerFileHandling
    \/ AnswerConfirmation

SpecCli == InitCli /\ [][NextCli]_vars

\* C16: dl_parser is called only from the confirmation prompt answered "Y",
\* with every earlier answer of that round valid and passed as entered, and
\* no call was made before; an invalid answer leaves main at the same prompt;
\* a confirmation "N" goes back to the periods prompt with no answer kept and
\* no call made; a session that ends has called dl_parser exactly once.
C16_DlParserCalledOnceAfterConfirmedRound ==
    [][/\ (dl_parser_calls' # dl_parser_calls) =>
              /\ dl_parser_calls = <<>>
              /\ cpc = "confirmation" /\ confirmation' = "Y"
              /\ Len(selected_periods) > 0
              /\ \A k \in 1..Len(selected_periods) : selected_periods[k] \in periods
              /\ main_dup_strategy \in {"id", "title", "link", "None"}
              /\ apply_mapping \in {"Y", "N"}
              /\ del_files \in {"Y", "N"}
              /\ dl_parser_calls' =
                     <<[selected_periods |-> selected_periods,
                        dup_strategy |-> main_dup_strategy,
                        apply_mapping |-> apply_mapping,
                        del_files |-> del_files]>>
       /\ (cpc = "periods"
              /\ \E k \in 1..Len(selected_periods') : selected_periods'[k] \notin periods)
             => cpc' = "periods"
       /\ (cpc = "dup_strategy" /\ main_dup_strategy' \notin {"id", "title", "link", "None"})
             => cpc' = "dup_strategy"
       /\ (cpc = "apply_mapping" /\ apply_mapping' \notin {"Y", "N"})
             => cpc' = "apply_mapping"
       /\ (cpc = "del_files" /\ del_files' \notin {"Y", "N"})
             => cpc' = "del_files"
       /\ (cpc = "confirmation" /\ confirmation' \notin {"Y", "N", NotAsked})
             => cpc' = "confirmation"
       /\ (cpc = "confirmation" /\ cpc' = "periods") =>
              /\ dl_parser_calls' = <<>>
              /\ selected_periods' = <<>>
              /\ main_dup_strategy' = NotAsked
              /\ apply_mapping' = NotAsked
              /\ del_files' = NotAsked
       /\ (cpc = "confirmation" /\ confirmation' = "Y") => Len(dl_parser_calls') = 1
       /\ (cpc' \in {"exit", "raised"}) => Len(dl_parser_calls') = 1
       /\ (cpc' # cpc) => cpc \notin {"exit", "raised"}]_vars

\* C16's case: the first round was answered "N" at the confirmation, and the
\* second round, which chose two periods, was confirmed: main has returned
\* after one call of dl_parser with the second round's answers.
C16_Witness ==
    /\ cpc = "exit"
    /\ restarts = 1
    /\ confirmation = "Y"
    /\ dl_parser_calls =
           <<[selected_periods |-> <<<<"2023">>, <<"202401">>>>,
              dup_strategy |-> "link", apply_mapping |-> "N", del_files |-> "Y"]>>

====
